---- MODULE Spec2Model ----
(***************************************************************************)
(* Model of the networking-resilience core of gpt-task-manager-obsidian:   *)
(* the cancellation token, the sliding-window rate limiter, the request    *)
(* engine (makeApiRequest and the inference entry points built on it), and *)
(* the TTL + LRU cache with its debounced invalidation (cache.ts), the      *)
(* transcription call (callWhisperApi) and the plugin operations that hand *)
(* out cancellation tokens (main.ts).  Each component has a specification  *)
(* of its own, all over the same variables.                                *)
(*                                                                         *)
(* Time is the value of Date.now() in milliseconds.  JavaScript runs one   *)
(* handler at a time, so every action is the code between two awaits.      *)
(* Timers are idealised: a timer fires at its due time, and time does not  *)
(* pass beyond a due timer before its continuation has run.                *)
(***************************************************************************)
EXTENDS Integers, Sequences, FiniteSets, TLC

(* ------------------------------ bounds -------------------------------- *)

\* Number of CancellationToken objects.
NumTokens == 1

\* Largest retry budget a caller passes.
MaxRetriesBound == 3

\* Largest number of onCancel calls made on one token.
MaxCallbacks == 2

\* Date.now() never exceeds this value in the model.
MaxTime == 400

\* Date.now() never exceeds this value in a run of the inference entry point.
GptMaxTime == 2100

\* In a run of the rate limiter alone: the last value of Date.now(), the
\* largest capacity configured, and the most timestamps ever held.
LimiterMaxTime == 8
LimiterMaxCapacity == 3
LimiterMaxRecorded == 4

\* In a run of a cache alone: the last value of Date.now() and the largest
\* globalVersion reached by invalidateAll() and clear() calls.
CacheMaxTime == 2
MaxVersion == 1

\* In a run of the ContextCache: the last value of Date.now(), and the number
\* up to which the notifications of one burst are counted.
ContextMaxTime == 6
HostMaxTime == 2100
MaxOperations == 3
MaxAttemptIndex == 5
LiveMaxTime == 1000
MaxBurst == 3

(* ------------------------- program constants -------------------------- *)

\* api-client.ts:213  maxRetries = 3 (default) and :396  config.maxRetries || 3
DefaultMaxRetries == 3

\* api-client.ts:214  retryDelayMs = 1000 (default)
DefaultRetryDelayMs == 1000

\* api-client.ts:395  config.timeout || 60000
DefaultOpenAITimeoutMs == 60000

\* api-client.ts:136  Math.min(exponentialDelay + jitter, 30000)
MaxBackoffMs == 30000

\* api-client.ts:313  await sleep(100)
PollSliceMs == 100

\* api-client.ts:225  statusCode: 429 of a local rate-limit denial
RateLimitedStatus == 429

\* cache.ts:31  DEFAULT_CONFIG.debounceMs, and main.ts:527
DefaultDebounceMs == 500

\* main.ts:525-526  the ttlMs and maxEntries the plugin configures
HostTtlMs == 60000
HostMaxEntries == 50

(* ------------------------------ inputs -------------------------------- *)

Tokens == 1 .. NumTokens
NoToken == 0
\* One invocation is followed at a time, its slot reused by the next one.
\* An invocation reads the limiter only in its first step and shares nothing
\* else with another, so what one invocation does is the same whether or not
\* the earlier ones have returned.
Calls == {1}

\* cancel(reason) arguments; "User cancelled" is the default of the parameter.
Reasons == {"User cancelled", "New operation started"}

\* Observers handed to onCancel: one that returns, one that throws, and one
\* that itself calls onCancel on the token with an observer that returns.
Callbacks == {"cbOk", "cbThrow", "cbNested"}

CallbackThrows(cb) == cb = "cbThrow"

\* The observers a running observer registers on its own token.
CallbackRegisters(cb) == IF cb = "cbNested" THEN <<"cbOk">> ELSE <<>>

(* ------------------------------- state -------------------------------- *)

VARIABLES
    now,          \* Date.now()
    isCancelled,  \* CancellationToken._isCancelled, per token
    reason,       \* CancellationToken._reason, per token
    callbacks,    \* CancellationToken._callbacks, per token
    fired,        \* per token, the observers invoked so far, in order
    registered,   \* per token, the observers handed to onCancel so far
    thrown,       \* what the last token operation raised to its caller
    lastOp,       \* the last token operation called: name, token, argument
    requests,     \* RateLimiter.requests
    maxRequests,  \* RateLimiter.maxRequests
    windowMs,     \* RateLimiter.windowMs
    call,         \* per invocation, the locals of makeApiRequest and its result
    config,       \* CacheConfig handed to the ContextCache and its caches
    caches,       \* per cache of the ContextCache: entries, accessOrder, globalVersion
    cacheRet,     \* the last cache operation called and what it returned
    lastUsed,     \* per cache and key held, Date.now() at its last set or get hit
    stored,       \* per cache and key, the value and time of the last set(k, v) not
                  \* yet followed by invalidateAll, clear, delete(k) or k's removal
    invalidationTimeout,  \* ContextCache.invalidationTimeout: a timer handle, 0 for null
    timers,       \* the pending setTimeout timers of the ContextCache: handle and due time
    vaultListeners,       \* the vault events the ContextCache's handlers are registered on
    registeredEvents,     \* ContextCache.registeredEvents: the event each cleanup unregisters
    contextCache, \* the plugin's contextCache field: "live", or "null" after destroy()
    lastNotify,   \* Date.now() at the last markdown change notification, -1 if none
    burstRuns,    \* timer-run invalidateAll() calls since the current burst began
    burstSize,    \* notifications of the current burst, counted up to MaxBurst
    activeCancellationToken,  \* the plugin's activeCancellationToken field (NoToken: null)
    tokensCreated,            \* new CancellationToken() calls made by the plugin so far
    operation,    \* the plugin operation under observation: where it is, what it showed
    whisper,      \* the locals of callWhisperApi and its result
    backoff       \* the backoff delays computed so far for one sequence of retries

tokenVars == <<isCancelled, reason, callbacks, fired, registered, thrown, lastOp>>
limiterVars == <<requests, maxRequests, windowMs>>
cacheVars == <<config, caches, cacheRet, lastUsed, stored>>
contextVars == <<invalidationTimeout, timers, vaultListeners, registeredEvents,
                 contextCache, lastNotify, burstRuns, burstSize>>
storeVars == <<cacheVars, contextVars>>
hostVars == <<activeCancellationToken, tokensCreated, operation, whisper, backoff>>
vars == <<now, isCancelled, reason, callbacks, fired, registered, thrown,
          lastOp, requests, maxRequests, windowMs, call,
          config, caches, cacheRet, lastUsed, stored, invalidationTimeout, timers,
          vaultListeners, registeredEvents, contextCache, lastNotify, burstRuns,
          burstSize, activeCancellationToken, tokensCreated, operation, whisper, backoff>>

NoException == [name |-> "none", message |-> ""]

(* ------------------------- CancellationToken -------------------------- *)

\* new CancellationToken(): the field initialisers.
TokenInit ==
    /\ isCancelled = [t \in Tokens |-> FALSE]
    /\ reason = [t \in Tokens |-> ""]
    /\ callbacks = [t \in Tokens |-> <<>>]
    /\ fired = [t \in Tokens |-> <<>>]
    /\ registered = [t \in Tokens |-> <<>>]
    /\ thrown = NoException
    /\ lastOp = [name |-> "new", token |-> NoToken, arg |-> ""]

CallbackError == [name |-> "Error", message |-> "Callback error"]

\* callback() on a token that is already cancelled: the observer runs, and an
\* onCancel it makes on the token calls the inner observer at once (line 66).
InvokeCallback(cb) ==
    [fired |-> <<cb>> \o CallbackRegisters(cb),
     registered |-> CallbackRegisters(cb),
     throws |-> CallbackThrows(cb)]

\* The loop of cancel without its try/catch: the first observer that throws
\* ends the loop and the exception leaves cancel.
RECURSIVE RunObservers_NoCatch(_)
RunObservers_NoCatch(cbs) ==
    IF cbs = <<>>
    THEN [fired |-> <<>>, registered |-> <<>>, thrown |-> NoException]
    ELSE LET h == InvokeCallback(Head(cbs))
             rest == RunObservers_NoCatch(Tail(cbs))
         IN  IF h.throws
             THEN [fired |-> h.fired, registered |-> h.registered,
                   thrown |-> CallbackError]
             ELSE [fired |-> h.fired \o rest.fired,
                   registered |-> h.registered \o rest.registered,
                   thrown |-> rest.thrown]

\* The loop of cancel (lines 55-61): every callback is called in order, inside
\* a try/catch that swallows what it throws.
RECURSIVE RunObservers(_)
RunObservers(cbs) ==
    IF cbs = <<>>
    THEN [fired |-> <<>>, registered |-> <<>>, thrown |-> NoException]
    ELSE LET h == InvokeCallback(Head(cbs))
             rest == RunObservers(Tail(cbs))
         IN  [fired |-> h.fired \o rest.fired,
              registered |-> h.registered \o rest.registered,
              thrown |-> rest.thrown]

\* cancel without its early return: every call sets the reason and runs the
\* callbacks.
cancel_NoEarlyReturn(t, r) ==
    /\ lastOp' = [name |-> "cancel", token |-> t, arg |-> r]
    /\ LET run == RunObservers(callbacks[t])
       IN  /\ thrown' = run.thrown
           /\ isCancelled' = [isCancelled EXCEPT ![t] = TRUE]
           /\ reason' = [reason EXCEPT ![t] = r]
           /\ fired' = [fired EXCEPT ![t] = fired[t] \o run.fired]
           /\ registered' = [registered EXCEPT ![t] = registered[t] \o run.registered]
    /\ UNCHANGED callbacks

\* cancel(reason): the first call wins; it sets the flag and the reason, then
\* runs the registered callbacks.
cancel(t, r) ==
    /\ lastOp' = [name |-> "cancel", token |-> t, arg |-> r]
    /\ IF isCancelled[t]
       THEN /\ thrown' = NoException
            /\ UNCHANGED <<isCancelled, reason, fired, registered>>
       ELSE LET run == RunObservers(callbacks[t])
            IN  /\ thrown' = run.thrown
                /\ isCancelled' = [isCancelled EXCEPT ![t] = TRUE]
                /\ reason' = [reason EXCEPT ![t] = r]
                /\ fired' = [fired EXCEPT ![t] = fired[t] \o run.fired]
                /\ registered' = [registered EXCEPT ![t] = registered[t] \o run.registered]
    /\ UNCHANGED callbacks

\* Number of onCancel calls made on token t so far.
Registrations(t) == Len(registered[t])

\* onCancel that queues the callback whatever the token's state.
onCancel_AlwaysQueues(t, cb) ==
    /\ Registrations(t) < MaxCallbacks
    /\ lastOp' = [name |-> "onCancel", token |-> t, arg |-> cb]
    /\ callbacks' = [callbacks EXCEPT ![t] = Append(callbacks[t], cb)]
    /\ registered' = [registered EXCEPT ![t] = Append(registered[t], cb)]
    /\ thrown' = NoException
    /\ UNCHANGED <<isCancelled, reason, fired>>

\* onCancel(callback): called at once when already cancelled (outside any
\* try/catch), queued otherwise.
onCancel(t, cb) ==
    /\ Registrations(t) < MaxCallbacks
    /\ lastOp' = [name |-> "onCancel", token |-> t, arg |-> cb]
    /\ IF isCancelled[t]
       THEN LET inv == InvokeCallback(cb)
            IN  /\ fired' = [fired EXCEPT ![t] = fired[t] \o inv.fired]
                /\ registered' = [registered EXCEPT ![t] =
                                     Append(registered[t], cb) \o inv.registered]
                /\ thrown' = IF inv.throws THEN CallbackError ELSE NoException
                /\ UNCHANGED callbacks
       ELSE /\ callbacks' = [callbacks EXCEPT ![t] = Append(callbacks[t], cb)]
            /\ registered' = [registered EXCEPT ![t] = Append(registered[t], cb)]
            /\ thrown' = NoException
            /\ UNCHANGED fired
    /\ UNCHANGED <<isCancelled, reason>>

\* throwIfCancelled that throws whatever the token's state.
throwIfCancelled_Always(t) ==
    /\ lastOp' = [name |-> "throwIfCancelled", token |-> t, arg |-> ""]
    /\ thrown' = [name |-> "CancellationError", message |-> reason[t]]
    /\ UNCHANGED <<isCancelled, reason, callbacks, fired, registered>>

\* throwIfCancelled(): throws CancellationError(reason) when cancelled.
throwIfCancelled(t) ==
    /\ lastOp' = [name |-> "throwIfCancelled", token |-> t, arg |-> ""]
    /\ thrown' = IF isCancelled[t]
                 THEN [name |-> "CancellationError", message |-> reason[t]]
                 ELSE NoException
    /\ UNCHANGED <<isCancelled, reason, callbacks, fired, registered>>

(* ----------------------------- RateLimiter ---------------------------- *)

\* rateLimiter = new RateLimiter(10, 60000), then setRateLimitConfig at load.
MaxRequestsChoices == {1, 2}
WindowMsChoices == {300}

LimiterInit ==
    /\ requests = <<>>
    /\ maxRequests \in MaxRequestsChoices
    /\ windowMs \in WindowMsChoices

\* cleanup that drops the filtered list instead of assigning it.
cleanup_KeepsAll(reqs, t, w) == reqs

\* cleanup that keeps a timestamp exactly windowMs old.
cleanup_ClosedWindow(reqs, t, w) ==
    LET cutoff == t - w
        keep(timestamp) == timestamp >= cutoff
    IN  SelectSeq(reqs, keep)

\* cleanup(): keep the timestamps strictly newer than now - windowMs.
cleanup(reqs, t, w) ==
    LET cutoff == t - w
        keep(timestamp) == timestamp > cutoff
    IN  SelectSeq(reqs, keep)

\* canMakeRequest(): its return value, on the list cleanup() leaves behind.
canMakeRequest(reqs, t, maxReq, w) ==
    Len(cleanup(reqs, t, w)) < maxReq

\* recordRequest(): requests.push(Date.now()).
recordRequest(reqs, t) == Append(reqs, t)

\* getWaitTime without the window added to the oldest timestamp.
getWaitTime_NoWindow(reqs, t, maxReq, w) ==
    IF Len(reqs) < maxReq THEN 0 ELSE reqs[1] - t

\* getWaitTime(): 0 under capacity, else oldest + windowMs - now.
getWaitTime(reqs, t, maxReq, w) ==
    LET kept == cleanup(reqs, t, w)
    IN  IF Len(kept) < maxReq THEN 0 ELSE kept[1] + w - t

\* setRateLimitConfig(maxRequests, windowMs): Object.assign copies every own
\* field of a fresh RateLimiter, its empty requests list included.
setRateLimitConfig(maxReq, w) ==
    /\ requests' = <<>>
    /\ maxRequests' = maxReq
    /\ windowMs' = w
    /\ UNCHANGED <<now, tokenVars, call, storeVars, hostVars>>

(* --------------------------- request engine --------------------------- *)

\* Inputs of one invocation.
\* The token the engine's callers pass (or none).
EngineTokens == {1}
TimeoutChoices == {100}
RetryDelayChoices == {0, 100}
TimeoutSecondsChoices == {1}
\* Math.random() * 1000, drawn from a few values of [0, 1000)
JitterChoices == {0, 100}
\* response.status of a transport answer
HttpStatuses == {200, 401, 429, 500}
\* message of an exception requestUrl rejects with ("" stands for a thrown
\* value that is no Error)
TransportErrors == {"net::ERR_FAILED", ""}

NullError == [kind |-> "null", msg |-> "", num |-> 0]
NoResult ==
    [success |-> FALSE, data |-> "unset", error |-> NullError, statusCode |-> -1,
     retryCount |-> -1, cancelled |-> FALSE]

IdleCall ==
    [pc |-> "idle", entry |-> "none", token |-> NoToken, reqMaxRetries |-> 0,
     maxRetries |-> 0, timeout |-> 0, retryDelayMs |-> 0, retryCount |-> 0,
     lastError |-> [kind |-> "message", msg |-> "", num |-> 0],
     lastStatusCode |-> 0, outcomes |-> <<>>, timeoutDue |-> -1,
     sleepDue |-> -1, startWait |-> -1, delay |-> 0, abandoned |-> 0,
     result |-> NoResult]

EngineInit == call = [i \in Calls |-> IdleCall]

Min(a, b) == IF a <= b THEN a ELSE b

RECURSIVE Pow2(_)
Pow2(n) == IF n <= 0 THEN 1 ELSE 2 * Pow2(n - 1)

\* calculateBackoffDelay without the cap of Math.min.
calculateBackoffDelay_NoCap(retryCount, baseDelayMs, jitter) ==
    baseDelayMs * Pow2(retryCount) + jitter

\* calculateBackoffDelay(retryCount, baseDelayMs), with the value Math.random()
\* produced made explicit.
calculateBackoffDelay(retryCount, baseDelayMs, jitter) ==
    LET exponentialDelay == baseDelayMs * Pow2(retryCount)
    IN  Min(exponentialDelay + jitter, MaxBackoffMs)

\* isRetryableError that takes every client and server error as retryable.
isRetryableError_AnyError(statusCode) == statusCode >= 400

\* isRetryableError that forgets the server errors.
isRetryableError_Only429(statusCode) == statusCode = 429

\* isRetryableError(statusCode)
isRetryableError(statusCode) ==
    statusCode = 429 \/ (statusCode >= 500 /\ statusCode < 600)

\* extractErrorMessage(response): the body's error.message, else "HTTP <status>".
extractErrorMessage(status) == [kind |-> "message", msg |-> "HTTP", num |-> status]

\* getErrorWithRecovery(statusCode, message): the message wrapped per status.
getErrorWithRecovery(statusCode, message) ==
    CASE statusCode = 401 -> [message EXCEPT !.kind = "Authentication failed"]
      [] statusCode = 403 -> [message EXCEPT !.kind = "Access denied"]
      [] statusCode = 429 -> [message EXCEPT !.kind = "Rate limited"]
      [] statusCode \in {500, 502, 503, 504} -> [message EXCEPT !.kind = "Server error"]
      [] OTHER -> message

\* cancellationToken?.isCancelled
TokenCancelled(c) == c.token # NoToken /\ isCancelled[c.token]

\* A return statement: the promise settles with res; the block-scoped locals
\* (startWait, delay) are gone.  Nothing clears the timeout timer of line 260,
\* so timeoutDue stays until the timer has fired.
Return(c, res) ==
    [c EXCEPT !.pc = "done", !.result = res,
              !.sleepDue = -1, !.startWait = -1, !.delay = 0]

\* The cancelled result with the status of the last answer in it.
CancelledResult_KeepsStatus(c) ==
    [success |-> FALSE, data |-> "null",
     error |-> [kind |-> "reason", msg |-> reason[c.token], num |-> 0],
     statusCode |-> c.lastStatusCode, retryCount |-> c.retryCount, cancelled |-> TRUE]

\* The return statement of an observed cancellation (lines 239-246, 304-311).
CancelledResult(c) ==
    [success |-> FALSE, data |-> "null",
     error |-> [kind |-> "reason", msg |-> reason[c.token], num |-> 0],
     statusCode |-> 0, retryCount |-> c.retryCount, cancelled |-> TRUE]

\* The return statement after the loop (lines 341-349).
FinalFailure(c) ==
    [success |-> FALSE, data |-> "null",
     error |-> getErrorWithRecovery(c.lastStatusCode, c.lastError),
     statusCode |-> c.lastStatusCode, retryCount |-> c.retryCount,
     cancelled |-> FALSE]

\* The loop head up to the await of the race (lines 235-274): leave the loop
\* when the budget is used up, return when the token is cancelled, else record
\* the admission, arm the timeout and send the request.  Yields the call's
\* next locals and the limiter's list.
BeginAttempt(c, reqs) ==
    IF ~(c.retryCount <= c.maxRetries)
    THEN [c |-> Return(c, FinalFailure(c)), reqs |-> reqs]
    ELSE IF TokenCancelled(c)
    THEN [c |-> Return(c, CancelledResult(c)), reqs |-> reqs]
    ELSE [c |-> [c EXCEPT !.pc = "inflight", !.timeoutDue = now + c.timeout,
                          !.sleepDue = -1, !.startWait = -1, !.delay = 0],
          reqs |-> recordRequest(reqs, now)]

\* Transport calls (requestUrl) made so far by the invocation.
Attempts(c) == Len(c.outcomes) + (IF c.pc = "inflight" THEN 1 ELSE 0)

\* The return statement of a local rate-limit denial (lines 219-228).
RateLimitedResult(waitTime) ==
    [success |-> FALSE, data |-> "null",
     error |-> [kind |-> "Rate limited. Please wait", msg |-> "seconds",
                num |-> (waitTime + 999) \div 1000],
     statusCode |-> RateLimitedStatus, retryCount |-> 0, cancelled |-> FALSE]

\* The return statement of a 2xx answer (lines 281-288).
SuccessResult(c, status) ==
    [success |-> TRUE, data |-> "json", error |-> NullError,
     statusCode |-> status, retryCount |-> c.retryCount, cancelled |-> FALSE]

\* The effective configuration makeApiRequest runs with.  callGptApi passes
\* timeoutSeconds * 1000 and maxRetries through callOpenAIChatApi, which
\* replaces a falsy value by its default and leaves retryDelayMs to default.
EffectiveConfig(entry, m, timeoutMs, timeoutSeconds, retryDelay) ==
    IF entry = "callGptApi"
    THEN [timeout |-> IF timeoutSeconds * 1000 = 0 THEN DefaultOpenAITimeoutMs
                      ELSE timeoutSeconds * 1000,
          maxRetries |-> IF m = 0 THEN DefaultMaxRetries ELSE m,
          retryDelayMs |-> DefaultRetryDelayMs]
    ELSE [timeout |-> timeoutMs, maxRetries |-> m, retryDelayMs |-> retryDelay]

\* makeApiRequest from its first line to its first await or return
\* (lines 207-274): the admission check, then the first pass of the loop head.
StartCall(i, entry, tok, m, timeoutMs, timeoutSeconds, retryDelay) ==
    /\ call[i].pc = "idle"
    /\ LET cfg == EffectiveConfig(entry, m, timeoutMs, timeoutSeconds, retryDelay)
           c0 == [IdleCall EXCEPT !.entry = entry, !.token = tok,
                                  !.reqMaxRetries = m,
                                  !.maxRetries = cfg.maxRetries,
                                  !.timeout = cfg.timeout,
                                  !.retryDelayMs = cfg.retryDelayMs]
           kept == cleanup(requests, now, windowMs)
       IN  IF ~canMakeRequest(requests, now, maxRequests, windowMs)
           THEN /\ call' = [call EXCEPT ![i] = Return(c0, RateLimitedResult(
                                getWaitTime(kept, now, maxRequests, windowMs)))]
                /\ requests' = kept
           ELSE LET nxt == BeginAttempt(c0, kept)
                IN  /\ call' = [call EXCEPT ![i] = nxt.c]
                    /\ requests' = nxt.reqs

\* One invocation begins; its caller's state is not touched.
Start(i, entry, tok, m, timeoutMs, timeoutSeconds, retryDelay) ==
    /\ StartCall(i, entry, tok, m, timeoutMs, timeoutSeconds, retryDelay)
    /\ UNCHANGED <<now, tokenVars, maxRequests, windowMs, storeVars, hostVars>>

\* The polling wait without retryCount++ when the delay has elapsed.
PollLoop_NoIncrement(c, reqs) ==
    IF now - c.startWait < c.delay
    THEN IF TokenCancelled(c)
         THEN [c |-> Return(c, CancelledResult(c)), reqs |-> reqs]
         ELSE [c |-> [c EXCEPT !.pc = "poll", !.sleepDue = now + PollSliceMs],
               reqs |-> reqs]
    ELSE BeginAttempt(c, reqs)

\* The polling wait of lines 301-317, entered or resumed: return when the
\* token is cancelled, sleep one slice while the delay has not elapsed, else
\* count the retry and go round the loop.
PollLoop(c, reqs) ==
    IF now - c.startWait < c.delay
    THEN IF TokenCancelled(c)
         THEN [c |-> Return(c, CancelledResult(c)), reqs |-> reqs]
         ELSE [c |-> [c EXCEPT !.pc = "poll", !.sleepDue = now + PollSliceMs],
               reqs |-> reqs]
    ELSE BeginAttempt([c EXCEPT !.retryCount = c.retryCount + 1], reqs)

\* The race is won by the transport's answer (lines 276-321).
Response(i, status, jitter) ==
    /\ call[i].pc = "inflight"
    /\ now <= call[i].timeoutDue
    /\ LET c1 == [call[i] EXCEPT
                     !.lastStatusCode = status,
                     !.outcomes = Append(@, [kind |-> "status", status |-> status])]
           c2 == [c1 EXCEPT !.lastError = extractErrorMessage(status)]
           c3 == [c2 EXCEPT !.startWait = now,
                     !.delay = calculateBackoffDelay(c2.retryCount, c2.retryDelayMs, jitter)]
           nxt == IF status >= 200 /\ status < 300
                  THEN [c |-> Return(c1, SuccessResult(c1, status)), reqs |-> requests]
                  ELSE IF isRetryableError(status) /\ c2.retryCount < c2.maxRetries
                  THEN PollLoop(c3, requests)
                  ELSE [c |-> Return(c2, FinalFailure(c2)), reqs |-> requests]
       IN  /\ call' = [call EXCEPT ![i] = nxt.c]
           /\ requests' = nxt.reqs
    /\ UNCHANGED <<now, tokenVars, maxRequests, windowMs, storeVars, hostVars>>

\* The catch block (lines 323-338) for an exception with message msg.  When
\* the timeout timer raised it, the timer is spent and the requestUrl of the
\* attempt, which nothing aborts, is left unanswered.
Catch(c, kind, msg, jitter) ==
    LET c1 == [c EXCEPT !.lastError = [kind |-> "message", msg |-> msg, num |-> 0],
                        !.timeoutDue = IF kind = "timeout" THEN -1 ELSE @,
                        !.abandoned = IF kind = "timeout" THEN @ + 1 ELSE @,
                        !.outcomes = Append(@, [kind |-> kind, status |-> 0])]
        delay == calculateBackoffDelay(c1.retryCount, c1.retryDelayMs, jitter)
    IN  IF msg = "Request timeout" /\ c1.retryCount < c1.maxRetries
        THEN [c1 EXCEPT !.pc = "sleep", !.startWait = now, !.delay = delay,
                        !.sleepDue = now + delay]
        ELSE Return(c1, FinalFailure(c1))

\* The race without its timeout promise: the timer never ends an attempt.
Timeout_NoTimeoutPromise(i, jitter) ==
    /\ call[i].pc = "inflight"
    /\ FALSE
    /\ UNCHANGED vars

\* The race is won by the timeout timer (line 261).
Timeout(i, jitter) ==
    /\ call[i].pc = "inflight"
    /\ now >= call[i].timeoutDue
    /\ call' = [call EXCEPT ![i] = Catch(call[i], "timeout", "Request timeout", jitter)]
    /\ UNCHANGED <<now, tokenVars, limiterVars, storeVars, hostVars>>

\* requestUrl rejects: a network failure, or a thrown value that is no Error.
TransportError(i, msg, jitter) ==
    /\ call[i].pc = "inflight"
    /\ now <= call[i].timeoutDue
    /\ call' = [call EXCEPT ![i] =
                   Catch(call[i], "exception",
                         IF msg = "" THEN "Unknown error" ELSE msg, jitter)]
    /\ UNCHANGED <<now, tokenVars, limiterVars, storeVars, hostVars>>

\* sleep(100) of the polling wait resolves (line 313).
PollWake(i) ==
    /\ call[i].pc = "poll"
    /\ now >= call[i].sleepDue
    /\ LET nxt == PollLoop(call[i], requests)
       IN  /\ call' = [call EXCEPT ![i] = nxt.c]
           /\ requests' = nxt.reqs
    /\ UNCHANGED <<now, tokenVars, maxRequests, windowMs, storeVars, hostVars>>

\* sleep(delay) after a timeout resolves (lines 332-334).
SleepWake(i) ==
    /\ call[i].pc = "sleep"
    /\ now >= call[i].sleepDue
    /\ LET nxt == BeginAttempt([call[i] EXCEPT !.retryCount = @ + 1], requests)
       IN  /\ call' = [call EXCEPT ![i] = nxt.c]
           /\ requests' = nxt.reqs
    /\ UNCHANGED <<now, tokenVars, maxRequests, windowMs, storeVars, hostVars>>

\* The transport settles a requestUrl promise whose attempt the timeout had
\* ended: the race is over, so nothing reads the answer.
LateAnswer(i) ==
    /\ call[i].abandoned > 0
    /\ call' = [call EXCEPT ![i].abandoned = @ - 1]
    /\ UNCHANGED <<now, tokenVars, limiterVars, storeVars, hostVars>>

\* The caller has consumed the result; the slot serves the next invocation.
Finish(i) ==
    /\ call[i].pc = "done"
    /\ call' = [call EXCEPT ![i] = IdleCall]
    /\ UNCHANGED <<now, tokenVars, limiterVars, storeVars, hostVars>>

\* The owner of a token cancels it.  A cancel of a cancelled token changes
\* nothing the engine reads, so the engine is driven by first cancels only.
Cancel(t, r) ==
    /\ ~isCancelled[t]
    /\ cancel(t, r)
    /\ UNCHANGED <<now, limiterVars, call, storeVars, hostVars>>

(* -------------------------------- time -------------------------------- *)

\* Due times of the timers whose continuation is still to run.
PendingDue ==
    {call[i].timeoutDue : i \in {j \in Calls : call[j].pc = "inflight"}}
    \cup {call[i].sleepDue : i \in {j \in Calls : call[j].pc \in {"poll", "sleep"}}}

SetMin(S) == CHOOSE x \in S : \A y \in S : x <= y

\* Whether anything in the state depends on Date.now(): a running invocation,
\* or an admission timestamp still inside the window.  In every other state
\* the program behaves the same at any later time, so time is left alone.
TimeMatters ==
    \/ \E i \in Calls : call[i].pc \notin {"idle", "done"}
    \/ cleanup(requests, now, windowMs) # <<>>

\* The timeout timer of an attempt that is over fires into a settled race when
\* its time has come, and is gone.
FireSpentTimers(c, t) ==
    IF c.pc # "inflight" /\ c.timeoutDue # -1 /\ t >= c.timeoutDue
    THEN [c EXCEPT !.timeoutDue = -1]
    ELSE c

\* Date.now() moves on by d ms, not beyond the next due timer nor limit.
Advance(d, limit) ==
    /\ TimeMatters
    /\ \A due \in PendingDue : now < due
    /\ now' = IF PendingDue = {} THEN now + d ELSE Min(now + d, SetMin(PendingDue))
    /\ now' <= limit
    /\ call' = [i \in Calls |-> FireSpentTimers(call[i], now')]
    /\ UNCHANGED <<tokenVars, limiterVars, storeVars, hostVars>>

AdvanceSteps == {PollSliceMs}

(* -------------------------------- Cache ------------------------------- *)

\* Keys handed to a cache; the empty string is a string like any other.
Keys == {"", "a", "b"}

\* Values stored; Null is what get returns on a miss.
Values == {"v1", "v2"}
Null == "null"

\* The caches a ContextCache owns (cache.ts:161-165).
CacheNames == {"goals", "projects", "epics", "tasks", "metadata"}

\* The configuration the plugin constructs its ContextCache with.
HostConfig == [ttlMs |-> HostTtlMs, maxEntries |-> HostMaxEntries,
               debounceMs |-> DefaultDebounceMs]

\* new Map()
EmptyMap == [x \in {} |-> Null]

\* new Cache(config): the field initialisers.
EmptyCache == [entries |-> EmptyMap, accessOrder |-> <<>>, globalVersion |-> 0]

NoStore == [value |-> Null, at |-> -1]

\* cacheRet: the operation, the cache and key it was called on, whether the
\* entry map held the key when it was called, and the value returned.
NoLoader == [kind |-> "none", value |-> Null]
NoCacheOp ==
    [op |-> "new", cache |-> "", key |-> "", held |-> FALSE, value |-> Null,
     loader |-> NoLoader, loaderCalls |-> 0, raised |-> NoException]

CacheInit ==
    /\ caches = [n \in CacheNames |-> EmptyCache]
    /\ cacheRet = NoCacheOp
    /\ lastUsed = [n \in CacheNames |-> [k \in Keys |-> -1]]
    /\ stored = [n \in CacheNames |-> [k \in Keys |-> NoStore]]

\* Map.delete(key)
MapDelete(entries, key) == [x \in DOMAIN entries \ {key} |-> entries[x]]

\* Map.set(key, entry)
MapSet(entries, key, entry) ==
    [x \in DOMAIN entries \cup {key} |-> IF x = key THEN entry ELSE entries[x]]

\* A key is truthy unless it is the empty string (if (oldestKey), line 87).
Truthy(key) == key # ""

\* removeFromAccessOrder(key): splice out the first occurrence, if any.
removeFromAccessOrder(order, key) ==
    IF \E i \in DOMAIN order : order[i] = key
    THEN LET index == CHOOSE i \in DOMAIN order :
                          /\ order[i] = key
                          /\ \A j \in 1 .. i - 1 : order[j] # key
         IN  SubSeq(order, 1, index - 1) \o SubSeq(order, index + 1, Len(order))
    ELSE order

\* get without the expiry test.
Cache_get_NoExpiry(c, key, t, cfg) ==
    IF key \notin DOMAIN c.entries
    THEN [cache |-> c, ret |-> Null]
    ELSE LET entry == c.entries[key]
         IN  IF entry.version # c.globalVersion
             THEN [cache |-> [c EXCEPT !.entries = MapDelete(@, key),
                                       !.accessOrder = removeFromAccessOrder(@, key)],
                   ret |-> Null]
             ELSE [cache |-> [c EXCEPT !.accessOrder =
                                 Append(removeFromAccessOrder(@, key), key)],
                   ret |-> entry.data]

\* get that takes an entry exactly ttlMs old as expired.
Cache_get_ExpiresAtTtl(c, key, t, cfg) ==
    IF key \notin DOMAIN c.entries
    THEN [cache |-> c, ret |-> Null]
    ELSE LET entry == c.entries[key]
         IN  IF t - entry.timestamp >= cfg.ttlMs \/ entry.version # c.globalVersion
             THEN [cache |-> [c EXCEPT !.entries = MapDelete(@, key),
                                       !.accessOrder = removeFromAccessOrder(@, key)],
                   ret |-> Null]
             ELSE [cache |-> [c EXCEPT !.accessOrder =
                                 Append(removeFromAccessOrder(@, key), key)],
                   ret |-> entry.data]

\* get(key) at time t (lines 50-78): the cache it leaves and what it returns.
Cache_get(c, key, t, cfg) ==
    IF key \notin DOMAIN c.entries
    THEN [cache |-> c, ret |-> Null]
    ELSE LET entry == c.entries[key]
         IN  IF t - entry.timestamp > cfg.ttlMs
             THEN [cache |-> [c EXCEPT !.entries = MapDelete(@, key),
                                       !.accessOrder = removeFromAccessOrder(@, key)],
                   ret |-> Null]
             ELSE IF entry.version # c.globalVersion
             THEN [cache |-> [c EXCEPT !.entries = MapDelete(@, key),
                                       !.accessOrder = removeFromAccessOrder(@, key)],
                   ret |-> Null]
             ELSE [cache |-> [c EXCEPT !.accessOrder =
                                 Append(removeFromAccessOrder(@, key), key)],
                   ret |-> entry.data]

\* The eviction loop of set (lines 85-91): while the map is at capacity and
\* the order is not empty, shift the oldest key and delete it if it is truthy.
RECURSIVE Evict(_, _)
Evict(c, cfg) ==
    IF Cardinality(DOMAIN c.entries) >= cfg.maxEntries /\ c.accessOrder # <<>>
    THEN LET oldestKey == Head(c.accessOrder)
         IN  Evict([c EXCEPT !.accessOrder = Tail(@),
                             !.entries = IF Truthy(oldestKey)
                                         THEN MapDelete(@, oldestKey) ELSE @],
                   cfg)
    ELSE c

\* set(key, data) at time t (lines 83-102).
Cache_set(c, key, data, t, cfg) ==
    LET c1 == Evict(c, cfg)
        entry == [data |-> data, timestamp |-> t, version |-> c1.globalVersion]
    IN  [c1 EXCEPT !.entries = MapSet(@, key, entry),
                   !.accessOrder = Append(removeFromAccessOrder(@, key), key)]

\* has(key): get(key) !== null, with everything get does.
Cache_has(c, key, t, cfg) ==
    LET r == Cache_get(c, key, t, cfg)
    IN  [cache |-> r.cache, ret |-> r.ret # Null]

\* delete(key) (lines 114-117).
Cache_delete(c, key) ==
    [c EXCEPT !.entries = MapDelete(@, key),
              !.accessOrder = removeFromAccessOrder(@, key)]

\* invalidateAll that sweeps the entries instead of bumping the version.
Cache_invalidateAll_Sweeps(c) ==
    [c EXCEPT !.entries = EmptyMap, !.accessOrder = <<>>]

\* invalidateAll() (lines 122-125).
Cache_invalidateAll(c) == [c EXCEPT !.globalVersion = @ + 1]

\* clear() (lines 130-135).
Cache_clear(c) ==
    [c EXCEPT !.entries = EmptyMap, !.accessOrder = <<>>, !.globalVersion = @ + 1]

\* Date.now() at the last set or get hit of every key the cache still holds,
\* after an operation at time t that left cache c1 and used the keys touched.
Touch(used, c1, touched, t) ==
    [k \in Keys |-> IF k \notin DOMAIN c1.entries THEN -1
                    ELSE IF k \in touched THEN t
                    ELSE used[k]]

\* The last set of every key that nothing has undone, after an operation op
\* on key that took the cache from c0 to c1 and stored written (Null: nothing).
Remember(st, c0, c1, op, key, written, t) ==
    [k \in Keys |->
        IF op \in {"invalidateAll", "clear"} THEN NoStore
        ELSE IF k = key /\ written # Null THEN [value |-> written, at |-> t]
        ELSE IF k = key /\ op = "delete" THEN NoStore
        ELSE IF k \in DOMAIN c0.entries /\ k \notin DOMAIN c1.entries THEN NoStore
        ELSE st[k]]

\* One cache operation called on cache n: the cache it leaves, what it
\* returned, the keys it used and the value it stored.
CacheStep(n, op, key, c1, ret, touched, written) ==
    /\ caches' = [caches EXCEPT ![n] = c1]
    /\ cacheRet' = [NoCacheOp EXCEPT !.op = op, !.cache = n, !.key = key,
                                     !.held = key \in DOMAIN caches[n].entries,
                                     !.value = ret]
    /\ lastUsed' = [lastUsed EXCEPT ![n] = Touch(@, c1, touched, now)]
    /\ stored' = [stored EXCEPT ![n] = Remember(@, caches[n], c1, op, key, written, now)]
    /\ UNCHANGED config

CacheGet(n, key) ==
    /\ LET r == Cache_get(caches[n], key, now, config)
       IN  CacheStep(n, "get", key, r.cache, r.ret,
                     IF r.ret # Null THEN {key} ELSE {}, Null)
    /\ UNCHANGED <<now, tokenVars, limiterVars, call, hostVars, contextVars>>

CacheSet(n, key, data) ==
    /\ CacheStep(n, "set", key, Cache_set(caches[n], key, data, now, config),
                 Null, {key}, data)
    /\ UNCHANGED <<now, tokenVars, limiterVars, call, hostVars, contextVars>>

CacheHas(n, key) ==
    /\ LET r == Cache_has(caches[n], key, now, config)
       IN  CacheStep(n, "has", key, r.cache, IF r.ret THEN "true" ELSE "false",
                     IF r.ret THEN {key} ELSE {}, Null)
    /\ UNCHANGED <<now, tokenVars, limiterVars, call, hostVars, contextVars>>

CacheDelete(n, key) ==
    /\ CacheStep(n, "delete", key, Cache_delete(caches[n], key), Null, {}, Null)
    /\ UNCHANGED <<now, tokenVars, limiterVars, call, hostVars, contextVars>>

CacheInvalidateAll(n) ==
    /\ caches[n].globalVersion < MaxVersion
    /\ CacheStep(n, "invalidateAll", "", Cache_invalidateAll(caches[n]), Null, {}, Null)
    /\ UNCHANGED <<now, tokenVars, limiterVars, call, hostVars, contextVars>>

CacheClear(n) ==
    /\ caches[n].globalVersion < MaxVersion
    /\ CacheStep(n, "clear", "", Cache_clear(caches[n]), Null, {}, Null)
    /\ UNCHANGED <<now, tokenVars, limiterVars, call, hostVars, contextVars>>

(* ----------------------------- ContextCache --------------------------- *)

\* The vault events the constructor registers a handler on (lines 189-211).
VaultEvents == {"modify", "create", "delete", "rename"}

\* new ContextCache(app, config) (lines 171-182).
ContextInit ==
    /\ invalidationTimeout = 0
    /\ timers = {}
    /\ vaultListeners = VaultEvents
    /\ registeredEvents = <<"modify", "create", "delete", "rename">>
    /\ contextCache = "live"
    /\ lastNotify = -1
    /\ burstRuns = 0
    /\ burstSize = 0

\* this.debounceMs = config.debounceMs || DEFAULT_CONFIG.debounceMs (line 173)
DebounceMs ==
    IF config.debounceMs = 0 THEN DefaultDebounceMs ELSE config.debounceMs

\* clearTimeout(handle)
clearTimeout(pending, handle) == {tm \in pending : tm.id # handle}

\* The handle setTimeout returns: a positive number no pending timer has.
NewHandle(pending) ==
    CHOOSE id \in 1 .. Cardinality(pending) + 1 :
        /\ \A tm \in pending : tm.id # id
        /\ \A other \in 1 .. id - 1 : \E tm \in pending : tm.id = other

\* debouncedInvalidate without the clearTimeout of the pending timer.
debouncedInvalidate_NoClear(pending, handle, t) ==
    LET id == NewHandle(pending)
    IN  [timers |-> pending \cup {[id |-> id, due |-> t + DebounceMs]},
         invalidationTimeout |-> id]

\* debouncedInvalidate() at time t (lines 227-236): the pending timers and the
\* handle it leaves.
debouncedInvalidate(pending, handle, t) ==
    LET cleared == IF handle # 0 THEN clearTimeout(pending, handle) ELSE pending
        id == NewHandle(cleared)
    IN  [timers |-> cleared \cup {[id |-> id, due |-> t + DebounceMs]},
         invalidationTimeout |-> id]

\* ContextCache.invalidateAll() (lines 306-313): every cache bumps its version.
ContextCache_invalidateAll(cs) == [n \in CacheNames |-> Cache_invalidateAll(cs[n])]

\* ContextCache.clear() (lines 318-325).
ContextCache_clear(cs) == [n \in CacheNames |-> Cache_clear(cs[n])]

\* The vault emits event ev for a file; the handler registered on it calls
\* debouncedInvalidate() when the file is a markdown file.  A notification
\* that comes less than debounceMs after the previous one goes on its burst,
\* any other begins a new burst.
Notify(ev, isMarkdown) ==
    /\ ev \in vaultListeners
    /\ IF isMarkdown
       THEN LET d == debouncedInvalidate(timers, invalidationTimeout, now)
                begins == lastNotify = -1 \/ now - lastNotify >= DebounceMs
            IN  /\ timers' = d.timers
                /\ invalidationTimeout' = d.invalidationTimeout
                /\ burstRuns' = IF begins THEN 0 ELSE burstRuns
                /\ burstSize' = IF begins THEN 1 ELSE Min(burstSize + 1, MaxBurst)
                /\ lastNotify' = now
       ELSE UNCHANGED <<timers, invalidationTimeout, burstRuns, burstSize, lastNotify>>
    /\ UNCHANGED <<now, tokenVars, limiterVars, call, hostVars, cacheVars,
                   vaultListeners, registeredEvents, contextCache>>

\* A debounce timer fires (lines 232-235): invalidateAll(), handle := null.
TimerFire ==
    \E tm \in timers :
        /\ now >= tm.due
        /\ timers' = timers \ {tm}
        /\ caches' = ContextCache_invalidateAll(caches)
        /\ cacheRet' = [NoCacheOp EXCEPT !.op = "invalidateAll", !.cache = "all"]
        /\ stored' = [n \in CacheNames |-> [k \in Keys |-> NoStore]]
        /\ invalidationTimeout' = 0
        /\ burstRuns' = burstRuns + 1
        /\ UNCHANGED <<now, tokenVars, limiterVars, call, hostVars, config, lastUsed,
                       vaultListeners, registeredEvents, contextCache, lastNotify,
                       burstSize>>

\* The exception a throwing loader raises.
LoaderError == [name |-> "Error", message |-> "loader failed"]

\* getOrLoad with a loader that is called whether or not the key is cached.
getOrLoad_LoadsAlways(c, key, loader, t, cfg) ==
    LET r == Cache_get(c, key, t, cfg)
    IN  IF loader.kind = "throws"
        THEN [cache |-> r.cache, ret |-> Null, loaderCalls |-> 1,
              raised |-> LoaderError, written |-> Null]
        ELSE [cache |-> Cache_set(r.cache, key, loader.value, t, cfg),
              ret |-> loader.value, loaderCalls |-> 1,
              raised |-> NoException, written |-> loader.value]

\* getOrLoad that catches the loader's exception and caches null for the key.
getOrLoad_CatchesAndStores(c, key, loader, t, cfg) ==
    LET r == Cache_get(c, key, t, cfg)
    IN  IF r.ret # Null
        THEN [cache |-> r.cache, ret |-> r.ret, loaderCalls |-> 0,
              raised |-> NoException, written |-> Null]
        ELSE IF loader.kind = "throws"
        THEN [cache |-> Cache_set(r.cache, key, Null, t, cfg), ret |-> Null,
              loaderCalls |-> 1, raised |-> NoException, written |-> Null]
        ELSE [cache |-> Cache_set(r.cache, key, loader.value, t, cfg),
              ret |-> loader.value, loaderCalls |-> 1,
              raised |-> NoException, written |-> loader.value]

\* getGoals / getProjects / getEpics / getTasks / getMetadata (lines 241-301)
\* on cache c at time t: the cached value when get(key) is not null; else the
\* loader is called, and either it throws, which ends the call before set, or
\* its value is stored and returned.
getOrLoad(c, key, loader, t, cfg) ==
    LET r == Cache_get(c, key, t, cfg)
    IN  IF r.ret # Null
        THEN [cache |-> r.cache, ret |-> r.ret, loaderCalls |-> 0,
              raised |-> NoException, written |-> Null]
        ELSE IF loader.kind = "throws"
        THEN [cache |-> r.cache, ret |-> Null, loaderCalls |-> 1,
              raised |-> LoaderError, written |-> Null]
        ELSE [cache |-> Cache_set(r.cache, key, loader.value, t, cfg),
              ret |-> loader.value, loaderCalls |-> 1,
              raised |-> NoException, written |-> loader.value]

\* One call of getGoals / ... / getMetadata on cache n of a live ContextCache.
ContextGet(n, key, loader) ==
    /\ contextCache = "live"
    /\ LET g == getOrLoad(caches[n], key, loader, now, config)
       IN  /\ caches' = [caches EXCEPT ![n] = g.cache]
           /\ cacheRet' = [op |-> "getOrLoad", cache |-> n, key |-> key,
                           held |-> key \in DOMAIN caches[n].entries,
                           value |-> g.ret, loader |-> loader,
                           loaderCalls |-> g.loaderCalls, raised |-> g.raised]
           /\ lastUsed' = [lastUsed EXCEPT ![n] =
                              Touch(@, g.cache, IF g.raised = NoException
                                                THEN {key} ELSE {}, now)]
           /\ stored' = [stored EXCEPT ![n] =
                            Remember(@, caches[n], g.cache, "getOrLoad", key,
                                     g.written, now)]
    /\ UNCHANGED <<now, tokenVars, limiterVars, call, hostVars, config, contextVars>>

\* destroy without the clearTimeout of the pending timer.
destroy_NoClearTimeout(pending, handle) == pending

\* The timers destroy() leaves pending (lines 349-352).
destroy_timers(pending, handle) ==
    IF handle # 0 THEN clearTimeout(pending, handle) ELSE pending

\* ContextCache.destroy() (cache.ts:343-356): runs the cleanups, clears the
\* pending timer and every cache.
destroy ==
    /\ vaultListeners' = vaultListeners \ {registeredEvents[k] : k \in DOMAIN registeredEvents}
    /\ registeredEvents' = <<>>
    /\ timers' = destroy_timers(timers, invalidationTimeout)
    /\ invalidationTimeout' = 0
    /\ caches' = ContextCache_clear(caches)
    /\ cacheRet' = [NoCacheOp EXCEPT !.op = "destroy", !.cache = "all"]
    /\ lastUsed' = [n \in CacheNames |-> [k \in Keys |-> -1]]
    /\ stored' = [n \in CacheNames |-> [k \in Keys |-> NoStore]]

\* onunload() (main.ts:475-488): contextCache.destroy() and contextCache =
\* null when there is a cache, then cancel("Plugin unloading") on the active
\* token when there is one.
onunload ==
    /\ IF contextCache = "live"
       THEN destroy /\ contextCache' = "null"
       ELSE UNCHANGED <<vaultListeners, registeredEvents, timers, invalidationTimeout,
                        caches, cacheRet, lastUsed, stored, contextCache>>
    /\ IF activeCancellationToken # NoToken
       THEN cancel(activeCancellationToken, "Plugin unloading")
       ELSE UNCHANGED tokenVars
    /\ UNCHANGED <<now, limiterVars, call, hostVars, config, lastNotify, burstRuns,
                   burstSize>>

\* The plugin is unloaded while its ContextCache is live.
Destroy == contextCache = "live" /\ onunload

(* ------------------------------ the plugin ---------------------------- *)

\* No operation of the plugin is under way.
IdleOp ==
    [kind |-> "none", pc |-> "idle", token |-> NoToken, shown |-> {},
     superseded |-> FALSE]

\* No transcription call is under way.
IdleWhisper == [pc |-> "idle", token |-> NoToken, sent |-> 0, result |-> NoResult]

\* No backoff delay has been computed.
NoBackoff == [baseDelayMs |-> 0, delays |-> <<>>]

\* The plugin after onload: no token handed out (main.ts:419), nothing running.
HostInit ==
    /\ activeCancellationToken = NoToken
    /\ tokensCreated = 0
    /\ operation = IdleOp
    /\ whisper = IdleWhisper
    /\ backoff = NoBackoff

(* ---------------------------- callWhisperApi -------------------------- *)

\* The observer callWhisperApi registers: () => controller.abort().  It
\* neither throws nor registers observers.
AbortCallback == "cbAbort"

\* controller.signal.aborted: the observer registered on the call's token
\* has run.
Aborted(w) ==
    w.token # NoToken /\ \E k \in DOMAIN fired[w.token] : fired[w.token][k] = AbortCallback

\* The catch block without the test for AbortError.
WhisperCatch_NoAbortTest(name, msg) ==
    [success |-> FALSE, data |-> "null",
     error |-> [kind |-> "message", msg |-> msg, num |-> 0],
     statusCode |-> 0, retryCount |-> 0, cancelled |-> FALSE]

\* The catch block (api-client.ts:508-531) for an exception name: message.
WhisperCatch(name, msg) ==
    IF name = "AbortError"
    THEN [success |-> FALSE, data |-> "null",
          error |-> [kind |-> "message", msg |-> "Request cancelled", num |-> 0],
          statusCode |-> 0, retryCount |-> 0, cancelled |-> TRUE]
    ELSE [success |-> FALSE, data |-> "null",
          error |-> [kind |-> "message", msg |-> msg, num |-> 0],
          statusCode |-> 0, retryCount |-> 0, cancelled |-> FALSE]

\* callWhisperApi from its first line to its first await or return
\* (lines 431-474): return at once when the token is cancelled; else register
\* the abort observer on the token and send the upload with fetch.  The rate
\* limiter is not consulted and nothing is recorded in it.
WhisperStart(tok) ==
    /\ whisper.pc = "idle"
    /\ IF tok # NoToken /\ isCancelled[tok]
       THEN /\ whisper' = [whisper EXCEPT
                              !.pc = "done", !.token = tok,
                              !.result = [success |-> FALSE, data |-> "null",
                                          error |-> [kind |-> "reason",
                                                     msg |-> reason[tok], num |-> 0],
                                          statusCode |-> 0, retryCount |-> 0,
                                          cancelled |-> TRUE]]
            /\ UNCHANGED tokenVars
       ELSE /\ whisper' = [whisper EXCEPT !.pc = "fetching", !.token = tok,
                                          !.sent = @ + 1]
            /\ IF tok # NoToken
               THEN onCancel(tok, AbortCallback)
               ELSE UNCHANGED tokenVars
    /\ UNCHANGED <<now, limiterVars, call, storeVars, activeCancellationToken,
                   tokensCreated, operation, backoff>>

\* fetch resolves with the response's status line (line 467): a status that
\* is not ok goes on to await response.text(), an ok one response.json().
WhisperResponse(status) ==
    /\ whisper.pc = "fetching"
    /\ ~Aborted(whisper)
    /\ whisper' = [whisper EXCEPT !.pc = "reading",
                                  !.result = [NoResult EXCEPT !.statusCode = status]]
    /\ UNCHANGED <<now, tokenVars, limiterVars, call, storeVars,
                   activeCancellationToken, tokensCreated, operation, backoff>>

\* The body has been read (lines 476-506): a failure with the status' error
\* message, or the transcription; a body that is no JSON makes json() throw.
WhisperBody(isJson) ==
    /\ whisper.pc = "reading"
    /\ ~Aborted(whisper)
    /\ LET status == whisper.result.statusCode
       IN  whisper' = [whisper EXCEPT
                          !.pc = "done",
                          !.result =
                              IF ~(status >= 200 /\ status < 300)
                              THEN [success |-> FALSE, data |-> "null",
                                    error |-> getErrorWithRecovery(
                                                 status, extractErrorMessage(status)),
                                    statusCode |-> status, retryCount |-> 0,
                                    cancelled |-> FALSE]
                              ELSE IF isJson
                              THEN [success |-> TRUE, data |-> "json",
                                    error |-> NullError, statusCode |-> status,
                                    retryCount |-> 0, cancelled |-> FALSE]
                              ELSE WhisperCatch("SyntaxError", "Unexpected token")]
    /\ UNCHANGED <<now, tokenVars, limiterVars, call, storeVars,
                   activeCancellationToken, tokensCreated, operation, backoff>>

\* fetch rejects for a network failure.
WhisperNetworkError(msg) ==
    /\ whisper.pc = "fetching"
    /\ ~Aborted(whisper)
    /\ whisper' = [whisper EXCEPT
                      !.pc = "done",
                      !.result = WhisperCatch("TypeError",
                                              IF msg = "" THEN "Unknown error" ELSE msg)]
    /\ UNCHANGED <<now, tokenVars, limiterVars, call, storeVars,
                   activeCancellationToken, tokensCreated, operation, backoff>>

\* The signal was aborted while fetch or the reading of the body was pending:
\* the pending promise rejects with an AbortError.
WhisperAbort ==
    /\ whisper.pc \in {"fetching", "reading"}
    /\ Aborted(whisper)
    /\ whisper' = [whisper EXCEPT !.pc = "done",
                                  !.result = WhisperCatch("AbortError", "aborted")]
    /\ UNCHANGED <<now, tokenVars, limiterVars, call, storeVars,
                   activeCancellationToken, tokensCreated, operation, backoff>>

\* The caller has consumed the result; the next call can begin.
WhisperFinish ==
    /\ whisper.pc = "done"
    /\ whisper' = IdleWhisper
    /\ UNCHANGED <<now, tokenVars, limiterVars, call, storeVars,
                   activeCancellationToken, tokensCreated, operation, backoff>>

\* The tokens the plugin can create in a run, none created yet.
HostTokens == 1 .. MaxOperations
HostTokenInit ==
    /\ isCancelled = [t \in HostTokens |-> FALSE]
    /\ reason = [t \in HostTokens |-> ""]
    /\ callbacks = [t \in HostTokens |-> <<>>]
    /\ fired = [t \in HostTokens |-> <<>>]
    /\ registered = [t \in HostTokens |-> <<>>]
    /\ thrown = NoException
    /\ lastOp = [name |-> "new", token |-> NoToken, arg |-> ""]

\* createCancellationToken without the cancel of the previous token.
createCancellationToken_NoCancel ==
    /\ tokensCreated < MaxOperations
    /\ UNCHANGED tokenVars
    /\ tokensCreated' = tokensCreated + 1
    /\ activeCancellationToken' = tokensCreated + 1

\* createCancellationToken() (main.ts:546-553): cancel the active token, if
\* any, with "New operation started"; a new token becomes the active one.
createCancellationToken ==
    /\ tokensCreated < MaxOperations
    /\ IF activeCancellationToken # NoToken
       THEN cancel(activeCancellationToken, "New operation started")
       ELSE UNCHANGED tokenVars
    /\ tokensCreated' = tokensCreated + 1
    /\ activeCancellationToken' = tokensCreated + 1

\* The cache key of getUserContext (the four folder settings joined by "|"),
\* and the getters it calls, in order.
CacheKey == "a"
UserContextCaches == <<"goals", "projects", "epics", "tasks">>

\* getUserContext() (main.ts:558-590) with settings.enableContextCache =
\* enabled and a loadUserContext that behaves as loader: what it leaves in
\* the caches and whether it raises.  The getters are called in order; one
\* that raises ends the call.
getUserContext(enabled, loader) ==
    IF contextCache = "live" /\ enabled
    THEN LET g(n) == getOrLoad(caches[n], CacheKey, loader, now, config)
             failing == {i \in DOMAIN UserContextCaches :
                            g(UserContextCaches[i]).raised # NoException}
             last == IF failing = {} THEN Len(UserContextCaches) ELSE SetMin(failing)
             read == {UserContextCaches[i] : i \in 1 .. last}
             final == UserContextCaches[last]
         IN  [caches |-> [n \in CacheNames |->
                             IF n \in read THEN g(n).cache ELSE caches[n]],
              cacheRet |-> [op |-> "getOrLoad", cache |-> final, key |-> CacheKey,
                            held |-> CacheKey \in DOMAIN caches[final].entries,
                            value |-> g(final).ret, loader |-> loader,
                            loaderCalls |-> g(final).loaderCalls,
                            raised |-> g(final).raised],
              lastUsed |-> [n \in CacheNames |->
                               IF n \in read
                               THEN Touch(lastUsed[n], g(n).cache,
                                          IF g(n).raised = NoException
                                          THEN {CacheKey} ELSE {}, now)
                               ELSE lastUsed[n]],
              stored |-> [n \in CacheNames |->
                             IF n \in read
                             THEN Remember(stored[n], caches[n], g(n).cache,
                                           "getOrLoad", CacheKey, g(n).written, now)
                             ELSE stored[n]],
              raised |-> g(final).raised]
    ELSE [caches |-> caches, cacheRet |-> cacheRet, lastUsed |-> lastUsed,
          stored |-> stored,
          raised |-> IF loader.kind = "throws" THEN LoaderError ELSE NoException]

\* callGptApi's result (gpt-service.ts:98-136, api-client.ts:398-426) for the
\* engine's result r and the content of the answer's first choice.
callGptApiResult(r, content) ==
    IF r.cancelled THEN [success |-> FALSE, cancelled |-> TRUE]
    ELSE IF ~r.success \/ content = "" THEN [success |-> FALSE, cancelled |-> FALSE]
    ELSE [success |-> TRUE, cancelled |-> FALSE]

\* Contents of an answer: none, text that does not parse, a suggestion.
Contents == {"", "text", "suggestion"}

\* What the operation shows once callGptApi has settled with result r
\* (main.ts:636-668, 860-891): the neutral cancellation notice, an error
\* notice, the parse-failure notice (processQuickTask then creates a simple
\* task; breakdownEpic reports it as an error) or its review modal.
ShownAfter(kind, r, content) ==
    LET g == callGptApiResult(r, content)
    IN  IF g.cancelled THEN {"cancelled"}
        ELSE IF ~g.success THEN {"error"}
        ELSE IF content # "suggestion"
        THEN IF kind = "processQuickTask" THEN {"parsingFailed", "simpleTask"}
             ELSE {"error"}
        ELSE {"modal"}

\* A promise the operation awaits has settled and its continuation has not
\* run yet: it runs before any timer or user event is handled.
ContinuationPending ==
    operation.pc = "awaiting" /\ \E i \in Calls : call[i].pc = "done"

\* processQuickTask(input) up to its await of callGptApi (main.ts:607-633):
\* the progress notice, createCancellationToken(), getUserContext(), then
\* callGptApi with the settings' timeout and retry budget.  A loader that
\* throws ends the operation in its catch block with an error notice.
StartQuickTask(m, ts, enabled, loader) ==
    /\ operation.pc = "idle"
    /\ \A i \in Calls : call[i].pc = "idle"
    /\ createCancellationToken
    /\ LET u == getUserContext(enabled, loader)
           started == [kind |-> "processQuickTask", pc |-> "awaiting",
                       token |-> tokensCreated + 1, shown |-> {"progress"},
                       superseded |-> FALSE]
       IN  /\ caches' = u.caches
           /\ cacheRet' = u.cacheRet
           /\ lastUsed' = u.lastUsed
           /\ stored' = u.stored
           /\ IF u.raised # NoException
              THEN /\ operation' = [started EXCEPT !.pc = "ended",
                                                   !.shown = {"progress", "error"}]
                   /\ UNCHANGED <<call, requests>>
              ELSE /\ operation' = started
                   /\ \E i \in Calls :
                         StartCall(i, "callGptApi", tokensCreated + 1, m, 0, ts, 0)
    /\ UNCHANGED <<now, maxRequests, windowMs, config, contextVars, whisper, backoff>>

\* breakdownEpic(epic) up to its first await (main.ts:822-856):
\* createCancellationToken(), then vault.read when the epic is a file, else
\* callGptApi at once.
StartBreakdown(isFile, m, ts) ==
    /\ operation.pc = "idle"
    /\ \A i \in Calls : call[i].pc = "idle"
    /\ createCancellationToken
    /\ LET started == [kind |-> "breakdownEpic", pc |-> "reading",
                       token |-> tokensCreated + 1, shown |-> {"progress"},
                       superseded |-> FALSE]
       IN  IF isFile
           THEN operation' = started /\ UNCHANGED <<call, requests>>
           ELSE /\ operation' = [started EXCEPT !.pc = "awaiting"]
                /\ \E i \in Calls :
                      StartCall(i, "callGptApi", tokensCreated + 1, m, 0, ts, 0)
    /\ UNCHANGED <<now, maxRequests, windowMs, storeVars, whisper, backoff>>

\* vault.read(epicFile) settles (main.ts:834): breakdownEpic goes on to
\* callGptApi, or to its catch block when the read was rejected.
BreakdownRead(ok, m, ts) ==
    /\ operation.pc = "reading"
    /\ IF ok
       THEN /\ operation' = [operation EXCEPT !.pc = "awaiting"]
            /\ \E i \in Calls :
                  StartCall(i, "callGptApi", operation.token, m, 0, ts, 0)
       ELSE /\ operation' = [operation EXCEPT !.pc = "ended",
                                              !.shown = @ \cup {"error"}]
            /\ UNCHANGED <<call, requests>>
    /\ UNCHANGED <<now, tokenVars, maxRequests, windowMs, storeVars,
                   activeCancellationToken, tokensCreated, whisper, backoff>>

\* callGptApi has settled: the rest of processQuickTask or breakdownEpic.
OperationResume(content) ==
    /\ operation.pc = "awaiting"
    /\ \E i \in Calls :
          /\ call[i].pc = "done"
          /\ operation' = [operation EXCEPT
                               !.pc = "ended",
                               !.shown = @ \cup ShownAfter(operation.kind,
                                                           call[i].result, content)]
    /\ UNCHANGED <<now, tokenVars, limiterVars, call, storeVars,
                   activeCancellationToken, tokensCreated, whisper, backoff>>

\* Another operation starts (processQuickTask, processVoiceTask or
\* breakdownEpic: main.ts:609, 756, 824) by calling createCancellationToken();
\* the request it goes on to make is another invocation and is not followed.
NewOperation ==
    /\ ~ContinuationPending
    /\ createCancellationToken
    /\ operation' = [operation EXCEPT
                         !.superseded = @ \/ /\ operation.pc = "awaiting"
                                             /\ \E i \in Calls :
                                                   call[i].pc \in {"inflight", "poll", "sleep"}]
    /\ UNCHANGED <<now, limiterVars, call, storeVars, whisper, backoff>>

\* The plugin is unloaded.
Unload ==
    /\ ~ContinuationPending
    /\ onunload

(* ---------------------------- specification --------------------------- *)

Init ==
    /\ now = 0
    /\ TokenInit
    /\ LimiterInit
    /\ EngineInit
    /\ config = HostConfig
    /\ CacheInit
    /\ ContextInit
    /\ HostInit

\* What the transport and the timers do to a running invocation, and what
\* the token's owner and the invocation's caller do.
EngineStep ==
    \/ \E i \in Calls, status \in HttpStatuses, jitter \in JitterChoices :
          Response(i, status, jitter)
    \/ \E i \in Calls, jitter \in JitterChoices : Timeout(i, jitter)
    \/ \E i \in Calls, msg \in TransportErrors, jitter \in JitterChoices :
          TransportError(i, msg, jitter)
    \/ \E i \in Calls : PollWake(i)
    \/ \E i \in Calls : SleepWake(i)
    \/ \E i \in Calls : LateAnswer(i)
    \/ \E i \in Calls : Finish(i)
    \/ \E t \in EngineTokens, r \in Reasons : Cancel(t, r)

\* The request engine called directly.
Next ==
    \/ \E i \in Calls, tok \in EngineTokens \cup {NoToken},
          m \in 0 .. MaxRetriesBound, tm \in TimeoutChoices,
          rd \in RetryDelayChoices :
          Start(i, "makeApiRequest", tok, m, tm, 0, rd)
    \/ EngineStep
    \/ \E d \in AdvanceSteps : Advance(d, MaxTime)

Spec == Init /\ [][Next]_vars

\* The inference entry point: callGptApi -> callOpenAIChatApi -> makeApiRequest.
NextGpt ==
    \/ \E i \in Calls, tok \in EngineTokens \cup {NoToken},
          m \in 0 .. MaxRetriesBound, ts \in TimeoutSecondsChoices :
          Start(i, "callGptApi", tok, m, 0, ts, 0)
    \/ EngineStep
    \/ \E d \in AdvanceSteps : Advance(d, GptMaxTime)

SpecGpt == Init /\ [][NextGpt]_vars

(* ------------------------ the rate limiter alone --------------------- *)

\* windowMs values configured in a run of the rate limiter alone
LimiterWindowChoices == {2, 3}

\* canMakeRequest() or getWaitTime() is called: both run cleanup() first.
LimiterCheck ==
    /\ requests' = cleanup(requests, now, windowMs)
    /\ UNCHANGED <<now, tokenVars, maxRequests, windowMs, call, storeVars, hostVars>>

\* recordRequest() is called, as makeApiRequest does before every attempt.
LimiterRecord ==
    /\ Len(requests) < LimiterMaxRecorded
    /\ requests' = recordRequest(requests, now)
    /\ UNCHANGED <<now, tokenVars, maxRequests, windowMs, call, storeVars, hostVars>>

\* One millisecond passes.
LimiterTick ==
    /\ now < LimiterMaxTime
    /\ now' = now + 1
    /\ UNCHANGED <<tokenVars, limiterVars, call, storeVars, hostVars>>

NextLimiter ==
    \/ LimiterCheck
    \/ LimiterRecord
    \/ \E mr \in 1 .. LimiterMaxCapacity, w \in LimiterWindowChoices :
          setRateLimitConfig(mr, w)
    \/ LimiterTick

SpecLimiter == Init /\ [][NextLimiter]_vars

(* ---------------------- the cancellation token alone ------------------ *)

TokenCancel(t, r) == cancel(t, r) /\ UNCHANGED <<now, limiterVars, call, storeVars, hostVars>>

TokenOnCancel(t, cb) == onCancel(t, cb) /\ UNCHANGED <<now, limiterVars, call, storeVars, hostVars>>

TokenThrowIfCancelled(t) ==
    throwIfCancelled(t) /\ UNCHANGED <<now, limiterVars, call, storeVars, hostVars>>

NextToken ==
    \/ \E t \in Tokens, r \in Reasons : TokenCancel(t, r)
    \/ \E t \in Tokens, cb \in Callbacks : TokenOnCancel(t, cb)
    \/ \E t \in Tokens : TokenThrowIfCancelled(t)

SpecToken == Init /\ [][NextToken]_vars

(* --------------------------- the cache alone -------------------------- *)

\* ttlMs and maxEntries a cache is constructed with in a run of the cache
\* alone, and debounceMs in a run of the ContextCache.
TtlChoices == {1}
MaxEntriesChoices == {0, 1, 2}
DebounceChoices == {2}

\* The cache the operations are called on.
CacheUnderTest == "goals"

\* The state after construction, with a configuration from the choices above
\* and the limiter as constructed (api-client.ts:127).
InitStore ==
    /\ now = 0
    /\ TokenInit
    /\ requests = <<>> /\ maxRequests = 10 /\ windowMs = 60000
    /\ EngineInit
    /\ config \in [ttlMs : TtlChoices, maxEntries : MaxEntriesChoices,
                   debounceMs : DebounceChoices]
    /\ CacheInit
    /\ ContextInit
    /\ HostInit

\* One millisecond passes.
CacheTick ==
    /\ now < CacheMaxTime
    /\ now' = now + 1
    /\ UNCHANGED <<tokenVars, limiterVars, call, storeVars, hostVars>>

NextCache ==
    \/ \E k \in Keys : CacheGet(CacheUnderTest, k)
    \/ \E k \in Keys, v \in Values : CacheSet(CacheUnderTest, k, v)
    \/ \E k \in Keys : CacheHas(CacheUnderTest, k)
    \/ \E k \in Keys : CacheDelete(CacheUnderTest, k)
    \/ CacheInvalidateAll(CacheUnderTest)
    \/ CacheClear(CacheUnderTest)
    \/ CacheTick

SpecCache == InitStore /\ [][NextCache]_vars

(* ------------------------- the ContextCache alone --------------------- *)

\* The caches and keys the plugin reads through, and what the loader yields.
ContextCaches == {"goals"}
ContextKeys == {"a", "b"}
LoadedValues == {"v1"}
Loaders ==
    [kind : {"returns"}, value : LoadedValues] \cup {[kind |-> "throws", value |-> Null]}

\* One millisecond passes; a due timer fires before time moves on.
ContextTick ==
    /\ now < ContextMaxTime
    /\ \A tm \in timers : now < tm.due
    /\ now' = now + 1
    /\ UNCHANGED <<tokenVars, limiterVars, call, storeVars, hostVars>>

NextContext ==
    \/ \E ev \in VaultEvents, isMarkdown \in BOOLEAN : Notify(ev, isMarkdown)
    \/ TimerFire
    \/ \E n \in ContextCaches, k \in ContextKeys, ld \in Loaders :
          ContextGet(n, k, ld)
    \/ Destroy
    \/ ContextTick

SpecContext == InitStore /\ [][NextContext]_vars

(* ------------------------- the plugin's operations -------------------- *)

\* settings.apiMaxRetries, settings.enableContextCache
HostRetryChoices == {1}
EnableContextCacheChoices == {TRUE, FALSE}

InitHost ==
    /\ now = 0
    /\ HostTokenInit
    /\ LimiterInit
    /\ EngineInit
    /\ config = HostConfig
    /\ CacheInit
    /\ ContextInit
    /\ HostInit

\* In the awaits of an operation the timers run as in Advance; a settled
\* await is resumed before time moves on.
HostAdvance(d) == ~ContinuationPending /\ Advance(d, HostMaxTime)

NextHost ==
    \/ \E m \in HostRetryChoices, ts \in TimeoutSecondsChoices,
          enabled \in EnableContextCacheChoices, ld \in Loaders :
          StartQuickTask(m, ts, enabled, ld)
    \/ \E isFile \in BOOLEAN, m \in HostRetryChoices, ts \in TimeoutSecondsChoices :
          StartBreakdown(isFile, m, ts)
    \/ \E ok \in BOOLEAN, m \in HostRetryChoices, ts \in TimeoutSecondsChoices :
          BreakdownRead(ok, m, ts)
    \/ \E content \in Contents : OperationResume(content)
    \/ NewOperation
    \/ Unload
    \/ \E i \in Calls, status \in HttpStatuses, jitter \in JitterChoices :
          Response(i, status, jitter)
    \/ \E i \in Calls, jitter \in JitterChoices : Timeout(i, jitter)
    \/ \E i \in Calls, msg \in TransportErrors, jitter \in JitterChoices :
          TransportError(i, msg, jitter)
    \/ \E i \in Calls : PollWake(i)
    \/ \E i \in Calls : SleepWake(i)
    \/ \E i \in Calls : LateAnswer(i)
    \/ \E d \in AdvanceSteps : HostAdvance(d)

SpecHost == InitHost /\ [][NextHost]_vars

(* -------------------------- the transcription call ------------------- *)

NextWhisper ==
    \/ \E tok \in EngineTokens \cup {NoToken} : WhisperStart(tok)
    \/ \E status \in HttpStatuses : WhisperResponse(status)
    \/ \E isJson \in BOOLEAN : WhisperBody(isJson)
    \/ \E msg \in TransportErrors : WhisperNetworkError(msg)
    \/ WhisperAbort
    \/ WhisperFinish
    \/ \E t \in EngineTokens, r \in Reasons : Cancel(t, r)
    \/ LimiterRecord

SpecWhisper == Init /\ [][NextWhisper]_vars

(* ------------------- one invocation, with timers that fire ------------ *)

\* maxRetries of the invocation.
LiveRetryChoices == {0, 2}

\* One invocation of the request engine, from its call on.
NextLive ==
    \/ \E i \in Calls, tok \in EngineTokens \cup {NoToken},
          m \in LiveRetryChoices, tm \in TimeoutChoices, rd \in RetryDelayChoices :
          Start(i, "makeApiRequest", tok, m, tm, 0, rd)
    \/ \E i \in Calls, status \in HttpStatuses, jitter \in JitterChoices :
          Response(i, status, jitter)
    \/ \E i \in Calls, jitter \in JitterChoices : Timeout(i, jitter)
    \/ \E i \in Calls, msg \in TransportErrors, jitter \in JitterChoices :
          TransportError(i, msg, jitter)
    \/ \E i \in Calls : PollWake(i)
    \/ \E i \in Calls : SleepWake(i)
    \/ \E i \in Calls : LateAnswer(i)
    \/ \E t \in EngineTokens, r \in Reasons : Cancel(t, r)
    \/ \E d \in AdvanceSteps : Advance(d, LiveMaxTime)

\* Time passes and a timer that is due runs its callback (setTimeout of
\* lines 197 and 261); the transport and the token's owner owe nothing.
SpecLive ==
    /\ Init
    /\ [][NextLive]_vars
    /\ WF_vars(\E d \in AdvanceSteps : Advance(d, LiveMaxTime))
    /\ WF_vars(\E i \in Calls, jitter \in JitterChoices : Timeout(i, jitter))
    /\ WF_vars(\E i \in Calls : PollWake(i))
    /\ WF_vars(\E i \in Calls : SleepWake(i))

(* --------------------------- the backoff delays ----------------------- *)

\* retryDelayMs of an invocation (1000 when the caller gives none) and values
\* of Math.random() * 1000, the ends of [0, 1000) included.
BaseDelayChoices == {0, 1, 100, DefaultRetryDelayMs, 2000, 40000}
BackoffJitterChoices == {0, 1, 500, 999}

InitBackoff ==
    /\ now = 0
    /\ TokenInit
    /\ LimiterInit
    /\ EngineInit
    /\ config = HostConfig
    /\ CacheInit
    /\ ContextInit
    /\ activeCancellationToken = NoToken
    /\ tokensCreated = 0
    /\ operation = IdleOp
    /\ whisper = IdleWhisper
    /\ backoff \in [baseDelayMs : BaseDelayChoices, delays : {<<>>}]

\* The delay before the next retry is computed (api-client.ts:297, 330):
\* retryCount is the number of retries made so far.
BackoffNext(jitter) ==
    /\ Len(backoff.delays) <= MaxAttemptIndex
    /\ backoff' = [backoff EXCEPT
                      !.delays = Append(@, calculateBackoffDelay(
                                              Len(backoff.delays),
                                              backoff.baseDelayMs, jitter))]
    /\ UNCHANGED <<now, tokenVars, limiterVars, call, storeVars,
                   activeCancellationToken, tokensCreated, operation, whisper>>

NextBackoff == \E jitter \in BackoffJitterChoices : BackoffNext(jitter)

SpecBackoff == InitBackoff /\ [][NextBackoff]_vars

(* ------------------------------- claims ------------------------------- *)

\* The invocation is between its first await and its return.
Running(c) == c.pc \in {"inflight", "poll", "sleep"}

IsStatus(o) == o.kind = "status"
IsSuccessStatus(o) == IsStatus(o) /\ o.status >= 200 /\ o.status < 300
\* 429 or 5xx, written out independently of isRetryableError
IsRetryableStatus(o) ==
    IsStatus(o) /\ (o.status = 429 \/ o.status \in 500 .. 599)
IsNonRetryableStatus(o) ==
    IsStatus(o) /\ ~IsSuccessStatus(o) /\ ~IsRetryableStatus(o)
IsRetryableFailure(o) == IsRetryableStatus(o) \/ o.kind = "timeout"

\* C1: a token cancelled while makeApiRequest is running makes the call end
\* with cancelled = true and success = false: whenever a running invocation
\* whose token is cancelled returns, its result is the cancelled one.
C1_CancelWhileRunningEndsCancelled ==
    [][\A i \in Calls :
          (Running(call[i]) /\ TokenCancelled(call[i]) /\ call'[i].pc = "done")
          => (call'[i].result.cancelled /\ ~call'[i].result.success)]_vars

\* C2: the admissions recorded inside the trailing window never number more
\* than maxRequests.
C2_WindowHoldsAtMostMaxRequests ==
    Cardinality({k \in DOMAIN requests : requests[k] > now - windowMs}) <= maxRequests

\* C3: when the token is cancelled during a backoff wait (after a retryable
\* status or after a timeout), the wait's next wake-up is at most one polling
\* slice away, and that wake-up returns the cancelled result.
C3_CancelInBackoffSeenWithinOneSlice ==
    [][\A i \in Calls :
          LET c == call[i]
          IN  (c.pc \in {"poll", "sleep"} /\ c.token # NoToken)
              => /\ (~isCancelled[c.token] /\ isCancelled'[c.token])
                    => c.sleepDue - now <= PollSliceMs
                 /\ (isCancelled[c.token] /\ call'[i] # c)
                    => (call'[i].pc = "done" /\ call'[i].result.cancelled)]_vars

\* C4: with a token never cancelled, k <= maxRetries retryable statuses
\* followed by a 2xx status end the call with success = true and
\* retryCount = k, after k + 1 transport calls.
C4_RetryableThenSuccess ==
    \A i \in Calls :
        LET c == call[i]
            n == Len(c.outcomes)
        IN  (/\ c.pc = "done"
             /\ ~TokenCancelled(c)
             /\ n >= 1
             /\ n - 1 <= c.maxRetries
             /\ \A k \in 1 .. n - 1 : IsRetryableStatus(c.outcomes[k])
             /\ IsSuccessStatus(c.outcomes[n]))
            => (/\ c.result.success
                /\ ~c.result.cancelled
                /\ c.result.retryCount = n - 1
                /\ c.result.statusCode = c.outcomes[n].status
                /\ Attempts(c) = n)

\* C4 witness: a call that succeeded on its last permitted attempt after
\* maxRetries >= 2 retryable statuses.
C4_Witness ==
    \E i \in Calls :
        /\ call[i].pc = "done"
        /\ call[i].result.success
        /\ call[i].maxRetries >= 2
        /\ Len(call[i].outcomes) = call[i].maxRetries + 1
        /\ ~TokenCancelled(call[i])

\* C5: a non-retryable HTTP status is never retried: it is the last transport
\* call of its invocation, which ends failed and not cancelled; when it
\* answers the first attempt the call made exactly one transport call and
\* retryCount is 0.
C5_NonRetryableStatusNeverRetried ==
    \A i \in Calls :
        LET c == call[i]
        IN  \A k \in DOMAIN c.outcomes :
                IsNonRetryableStatus(c.outcomes[k])
                => (/\ k = Len(c.outcomes)
                    /\ Attempts(c) = k
                    /\ c.pc = "done"
                    /\ ~c.result.success
                    /\ ~c.result.cancelled
                    /\ c.result.statusCode = c.outcomes[k].status
                    /\ c.result.retryCount = k - 1)

\* C5 witness: a 401 on the first attempt of a call with retries to spare.
C5_Witness ==
    \E i \in Calls :
        /\ call[i].pc = "done"
        /\ call[i].maxRetries >= 1
        /\ call[i].outcomes = <<[kind |-> "status", status |-> 401]>>
        /\ call[i].result.retryCount = 0

\* C6: an invocation never makes more than maxRetries + 1 transport calls;
\* when every attempt ends in a retryable failure and the token is never
\* cancelled, it makes exactly maxRetries + 1 and ends failed, not cancelled,
\* with retryCount = maxRetries.
C6_RetriesExhausted ==
    \A i \in Calls :
        LET c == call[i]
        IN  /\ Attempts(c) <= c.maxRetries + 1
            /\ (/\ c.pc = "done"
                /\ ~TokenCancelled(c)
                /\ c.outcomes # <<>>
                /\ \A k \in DOMAIN c.outcomes : IsRetryableFailure(c.outcomes[k]))
               => (/\ Len(c.outcomes) = c.maxRetries + 1
                   /\ ~c.result.success
                   /\ ~c.result.cancelled
                   /\ c.result.retryCount = c.maxRetries)

\* C6 witness: a call with maxRetries >= 1 whose attempts all failed
\* retryably, one of them by timeout.
C6_Witness ==
    \E i \in Calls :
        /\ call[i].pc = "done"
        /\ call[i].maxRetries >= 1
        /\ ~TokenCancelled(call[i])
        /\ Len(call[i].outcomes) = call[i].maxRetries + 1
        /\ \A k \in DOMAIN call[i].outcomes : IsRetryableFailure(call[i].outcomes[k])
        /\ \E k \in DOMAIN call[i].outcomes : call[i].outcomes[k].kind = "timeout"
        /\ \E k \in DOMAIN call[i].outcomes : IsStatus(call[i].outcomes[k])

\* C7: callGptApi called with maxRetries = m makes at most m + 1 transport
\* calls.
C7_GptHonoursRetryBudget ==
    \A i \in Calls :
        call[i].entry = "callGptApi"
        => Attempts(call[i]) <= call[i].reqMaxRetries + 1

\* Admission timestamps inside the trailing window, counted without cleanup().
InWindow == {k \in DOMAIN requests : requests[k] > now - windowMs}

\* C8: a makeApiRequest that finds the window full returns at once, in the
\* same step: success = false, statusCode = 429, retryCount = 0, cancelled =
\* false, the error carrying the wait until the oldest admission leaves the
\* window (in whole seconds, rounded up); no transport call is made, no
\* timestamp is recorded (the list is only pruned) and no timer is armed.
C8_DeniedAdmissionReturnsAtOnce ==
    [][\A i \in Calls :
          (/\ call[i].pc = "idle"
           /\ call'[i].pc # "idle"
           /\ Cardinality(InWindow) >= maxRequests)
          => LET oldest == requests[CHOOSE k \in InWindow : \A j \in InWindow : k <= j]
                 waitMs == oldest + windowMs - now
             IN  /\ call'[i].pc = "done"
                 /\ ~call'[i].result.success
                 /\ call'[i].result.data = "null"
                 /\ call'[i].result.statusCode = 429
                 /\ call'[i].result.retryCount = 0
                 /\ ~call'[i].result.cancelled
                 /\ waitMs > 0
                 /\ call'[i].result.error =
                       [kind |-> "Rate limited. Please wait", msg |-> "seconds",
                        num |-> (waitMs + 999) \div 1000]
                 /\ call'[i].outcomes = <<>>
                 /\ call'[i].timeoutDue = -1 /\ call'[i].sleepDue = -1
                 /\ requests' = SelectSeq(requests, LAMBDA ts : ts > now - windowMs)
                 /\ now' = now]_vars

\* C8 witness: an invocation turned away by the limiter although its token
\* was not cancelled.
C8_Witness ==
    \E i \in Calls :
        /\ call[i].pc = "done"
        /\ call[i].result.statusCode = 429
        /\ call[i].outcomes = <<>>
        /\ ~TokenCancelled(call[i])
        /\ Cardinality(InWindow) >= maxRequests

\* C9: with capacity c >= 1 and window w, while the list holds exactly c
\* admissions, all recorded at t0, canMakeRequest() answers false at every
\* time in [t0, t0 + w) and true at every time after t0 + w.
C9_FullWindowDeniesUntilItExpires ==
    (/\ maxRequests >= 1
     /\ Len(requests) = maxRequests
     /\ \A k \in DOMAIN requests : requests[k] = requests[1])
    => LET t0 == requests[1]
       IN  /\ (t0 <= now /\ now < t0 + windowMs)
              => ~canMakeRequest(requests, now, maxRequests, windowMs)
           /\ now > t0 + windowMs
              => canMakeRequest(requests, now, maxRequests, windowMs)

\* C9 witness: a full window of three admissions made at the same
\* millisecond, looked at after that millisecond has left the window.
C9_Witness ==
    /\ maxRequests = 3
    /\ Len(requests) = 3
    /\ \A k \in DOMAIN requests : requests[k] = requests[1]
    /\ now > requests[1] + windowMs

\* C10: cancel(r) on a token not yet cancelled leaves it cancelled with
\* reason r; a cancelled token stays cancelled with the same reason whatever
\* is called next, and a later cancel invokes no observer.
C10_FirstCancelWins ==
    [][\A t \in Tokens :
          /\ (~isCancelled[t] /\ lastOp'.name = "cancel" /\ lastOp'.token = t)
             => (isCancelled'[t] /\ reason'[t] = lastOp'.arg)
          /\ isCancelled[t] => (isCancelled'[t] /\ reason'[t] = reason[t])
          /\ (isCancelled[t] /\ lastOp'.name = "cancel" /\ lastOp'.token = t)
             => fired'[t] = fired[t]]_vars

\* C10 witness: a token with two observers was cancelled, and cancel was then
\* called on it again with another reason.
C10_Witness ==
    \E t \in Tokens :
        /\ isCancelled[t]
        /\ lastOp.name = "cancel" /\ lastOp.token = t
        /\ lastOp.arg # reason[t]
        /\ Len(fired[t]) = 2

\* Number of places of seq that hold x.
Count(seq, x) == Cardinality({k \in DOMAIN seq : seq[k] = x})

\* C11: every observer handed to onCancel is invoked exactly once: never
\* while the token is not cancelled; once the token is cancelled, as many
\* times as it was handed over; inside the first cancel when it was queued
\* before it, and inside onCancel itself when the token is already cancelled.
C11_EachObserverFiresExactlyOnce ==
    [][\A t \in Tokens :
          /\ ~isCancelled'[t] => fired'[t] = <<>>
          /\ isCancelled'[t]
             => \A cb \in Callbacks : Count(fired'[t], cb) = Count(registered'[t], cb)
          /\ (~isCancelled[t] /\ isCancelled'[t])
             => \A cb \in Callbacks : Count(fired'[t], cb) >= Count(callbacks[t], cb)
          /\ (isCancelled[t] /\ lastOp'.name = "onCancel" /\ lastOp'.token = t
              /\ registered'[t] # registered[t])
             => Count(fired'[t], lastOp'.arg) = Count(fired[t], lastOp'.arg) + 1
          /\ fired'[t] # fired[t]
             => (lastOp'.name \in {"cancel", "onCancel"} /\ lastOp'.token = t)]_vars

\* C11 witness: an observer that registers another one from inside ran in the
\* first cancel, and cancel was then called again.
C11_Witness ==
    \E t \in Tokens :
        /\ isCancelled[t]
        /\ callbacks[t] = <<"cbNested">>
        /\ fired[t] = <<"cbNested", "cbOk">>
        /\ lastOp.name = "cancel" /\ lastOp.arg # reason[t]

\* C12: in the cancel that cancels the token, an observer that throws keeps no
\* queued observer from being invoked, cancel raises nothing, and the token
\* ends cancelled with the given reason.
C12_ThrowingObserverBlocksNothing ==
    [][\A t \in Tokens :
          (~isCancelled[t] /\ lastOp'.name = "cancel" /\ lastOp'.token = t)
          => /\ thrown' = NoException
             /\ isCancelled'[t]
             /\ reason'[t] = lastOp'.arg
             /\ \A cb \in Callbacks : Count(fired'[t], cb) >= Count(callbacks[t], cb)
             /\ \A k \in DOMAIN callbacks[t] :
                   \E j \in DOMAIN fired'[t] :
                       /\ fired'[t][j] = callbacks[t][k]
                       /\ j >= k]_vars

\* C12 witness: the first of two queued observers throws and both have run.
C12_Witness ==
    \E t \in Tokens :
        /\ lastOp.name = "cancel" /\ lastOp.token = t
        /\ callbacks[t] = <<"cbThrow", "cbOk">>
        /\ fired[t] = <<"cbThrow", "cbOk">>
        /\ isCancelled[t] /\ reason[t] = lastOp.arg
        /\ thrown = NoException

\* C13: throwIfCancelled raises CancellationError carrying the token's reason
\* exactly when the token is cancelled, raises nothing otherwise, and leaves
\* the token as it was.
C13_ThrowIfCancelledIffCancelled ==
    [][\A t \in Tokens :
          (lastOp'.name = "throwIfCancelled" /\ lastOp'.token = t)
          => /\ isCancelled[t]
                => thrown' = [name |-> "CancellationError", message |-> reason[t]]
             /\ ~isCancelled[t] => thrown' = NoException
             /\ UNCHANGED <<isCancelled, reason, callbacks, fired, registered>>]_vars

\* C13 witness: throwIfCancelled on a token cancelled with a reason other
\* than the default raised that reason.
C13_Witness ==
    /\ lastOp.name = "throwIfCancelled"
    /\ thrown = [name |-> "CancellationError", message |-> "New operation started"]


\* A step that is the call of operation op on the cache under test.
CacheOpStep(op) ==
    /\ cacheRet'.op = op
    /\ cacheRet'.cache = CacheUnderTest
    /\ now' = now
    /\ UNCHANGED contextVars

\* The cache under test, before and after a step.
Cut == caches[CacheUnderTest]
CutAfter == caches'[CacheUnderTest]

\* C14: get(k) returns v when the last set(k, v) is at most ttlMs old (exactly
\* ttlMs included) and nothing has undone it since: no invalidateAll, clear,
\* delete(k), overwrite or eviction of k.
C14_RoundTrip ==
    [][\A k \in Keys :
          LET st == stored[CacheUnderTest][k]
          IN  (/\ CacheOpStep("get") /\ cacheRet'.key = k
               /\ st # NoStore
               /\ now - st.at <= config.ttlMs)
              => cacheRet'.value = st.value]_vars

\* C14 witness: a get returned the value a set stored exactly ttlMs earlier,
\* after another key was set in between.
C14_Witness ==
    \E k \in Keys :
        /\ cacheRet.op = "get" /\ cacheRet.key = k /\ cacheRet.held
        /\ stored[CacheUnderTest][k] # NoStore
        /\ now - stored[CacheUnderTest][k].at = config.ttlMs
        /\ cacheRet.value = stored[CacheUnderTest][k].value
        /\ Cardinality(DOMAIN Cut.entries) = 2

\* C15: get(k) on an entry that is expired, or that was stored before the last
\* invalidateAll, returns null and removes k from the entry map and from the
\* recency order, leaving every other key's entry and place unchanged.
C15_StaleEntryIsMissAndRemoved ==
    [][\A k \in Keys :
          LET st == stored[CacheUnderTest][k]
          IN  (/\ CacheOpStep("get") /\ cacheRet'.key = k
               /\ k \in DOMAIN Cut.entries
               /\ (st = NoStore \/ now - st.at > config.ttlMs))
              => /\ cacheRet'.value = Null
                 /\ DOMAIN CutAfter.entries = DOMAIN Cut.entries \ {k}
                 /\ \A x \in DOMAIN CutAfter.entries :
                       CutAfter.entries[x] = Cut.entries[x]
                 /\ CutAfter.accessOrder =
                       SelectSeq(Cut.accessOrder, LAMBDA x : x # k)
                 /\ CutAfter.globalVersion = Cut.globalVersion]_vars

\* C15 witness: with no invalidateAll or clear ever called, a get found its
\* key in the entry map, returned null and removed it, another key staying.
C15_Witness ==
    \E k \in Keys :
        /\ cacheRet.op = "get" /\ cacheRet.key = k
        /\ cacheRet.held /\ cacheRet.value = Null
        /\ k \notin DOMAIN Cut.entries
        /\ Cardinality(DOMAIN Cut.entries) = 1
        /\ Cut.globalVersion = 0
        /\ now > config.ttlMs

\* C16: a set of a new key into a cache holding maxEntries keys evicts exactly
\* one key, and no held key was used (set, or hit by get) longer ago than it.
C16_EvictsLeastRecentlyUsed ==
    [][\A k \in Keys :
          (/\ CacheOpStep("set") /\ cacheRet'.key = k
           /\ k \notin DOMAIN Cut.entries
           /\ Cardinality(DOMAIN Cut.entries) = config.maxEntries)
          => LET evicted == DOMAIN Cut.entries \ DOMAIN CutAfter.entries
             IN  /\ Cardinality(evicted) = 1
                 /\ \A x \in evicted : \A y \in DOMAIN Cut.entries :
                       lastUsed[CacheUnderTest][x] <= lastUsed[CacheUnderTest][y]]_vars

\* C17: the entry map holds at most maxEntries keys and the recency order
\* holds exactly the keys of the entry map, each once.
C17_MapAndOrderAgree ==
    /\ Cardinality(DOMAIN Cut.entries) <= config.maxEntries
    /\ {Cut.accessOrder[i] : i \in DOMAIN Cut.accessOrder} = DOMAIN Cut.entries
    /\ Len(Cut.accessOrder) = Cardinality(DOMAIN Cut.entries)

\* C18: invalidateAll() adds 1 to globalVersion and changes nothing else of
\* the cache; every entry held at the call is a miss for a get of its key,
\* at the call and at any later time, until the key is set again.
C18_InvalidateAllBumpsVersionOnly ==
    [][/\ CacheOpStep("invalidateAll")
          => /\ CutAfter = [Cut EXCEPT !.globalVersion = @ + 1]
             /\ \A k \in DOMAIN Cut.entries :
                   Cache_get(CutAfter, k, now, config).ret = Null
       /\ \A k \in DOMAIN Cut.entries :
             (/\ CacheOpStep("get") /\ cacheRet'.key = k
              /\ stored[CacheUnderTest][k] = NoStore)
             => cacheRet'.value = Null]_vars

\* C18 witness: a get missed on an entry that is younger than ttlMs and was
\* held when invalidateAll was called.
C18_Witness ==
    \E k \in Keys :
        /\ cacheRet.op = "get" /\ cacheRet.key = k
        /\ cacheRet.held /\ cacheRet.value = Null
        /\ k \notin DOMAIN Cut.entries
        /\ now = 0
        /\ Cut.globalVersion = 1
        /\ Cut.entries # EmptyMap
        /\ \A x \in DOMAIN Cut.entries : Cut.entries[x].version = 0


\* What holds between the notifications and the debounce timer of a live
\* ContextCache: at most one timer is pending; while one is, it is due
\* debounceMs after the last notification and the burst has caused no
\* invalidateAll(); once none is, the burst has caused exactly one.
DebounceState ==
    /\ Cardinality(timers) <= 1
    /\ (contextCache = "live" /\ lastNotify >= 0)
       => IF timers # {}
          THEN /\ burstRuns = 0
               /\ \A tm \in timers : tm.due = lastNotify + DebounceMs
               /\ now <= lastNotify + DebounceMs
          ELSE /\ burstRuns = 1
               /\ now >= lastNotify + DebounceMs

\* C19: a burst of markdown change notifications, each less than debounceMs
\* after the one before, causes exactly one invalidateAll(), run by the timer
\* debounceMs after the burst's last notification, and bumps every cache's
\* version by one; at most one debounce timer is pending at any time.
C19_DebounceRunsOncePerBurst ==
    [][/\ DebounceState'
       /\ burstRuns' > burstRuns
          => /\ burstRuns' = 1
             /\ now = lastNotify + DebounceMs
             /\ \A n \in CacheNames :
                   caches'[n].globalVersion = caches[n].globalVersion + 1
       /\ (contextCache' = "live" /\ burstRuns' = burstRuns)
          => \A n \in CacheNames :
                caches'[n].globalVersion = caches[n].globalVersion]_vars

\* C19 witness: a burst of three notifications, the last one 3 ms into the
\* run, has been followed by its one invalidateAll().
C19_Witness ==
    /\ contextCache = "live"
    /\ burstSize = 3
    /\ lastNotify = 3
    /\ burstRuns = 1
    /\ timers = {}
    /\ now = lastNotify + DebounceMs
    /\ \A n \in CacheNames : caches[n].globalVersion = 1

\* After destroy(): no timer is pending, the handle is null, every cache is
\* empty and no handler is registered on the vault.
DestroyedState ==
    contextCache = "null"
    => /\ timers = {}
       /\ invalidationTimeout = 0
       /\ vaultListeners = {}
       /\ registeredEvents = <<>>
       /\ \A n \in CacheNames :
             caches[n].entries = EmptyMap /\ caches[n].accessOrder = <<>>

\* C20: after destroy() no debounce timer is pending, the caches are empty and
\* the change listeners are unregistered, and from then on no step runs
\* invalidateAll() or touches a cache or a timer.
C20_NothingRunsAfterDestroy ==
    [][/\ DestroyedState'
       /\ contextCache = "null"
          => /\ caches' = caches
             /\ timers' = timers
             /\ burstRuns' = burstRuns
             /\ contextCache' = "null"]_vars

\* C20 witness: destroy() came less than debounceMs after a notification, and
\* the time at which that notification's timer was due has passed without an
\* invalidateAll().
C20_Witness ==
    /\ contextCache = "null"
    /\ lastNotify >= 0
    /\ burstRuns = 0
    /\ now > lastNotify + DebounceMs
    /\ \A n \in CacheNames : caches[n].globalVersion = 1


\* A step that is a call of getGoals / ... / getMetadata on cache n with key k.
GetOrLoadStep(n, k) ==
    /\ cacheRet'.op = "getOrLoad"
    /\ cacheRet'.cache = n
    /\ cacheRet'.key = k
    /\ now' = now
    /\ UNCHANGED contextVars

\* Cache c holds a valid entry for k at time t: present, at most ttlMs old and
\* stamped with the current version.
ValidEntry(c, k, t) ==
    /\ k \in DOMAIN c.entries
    /\ t - c.entries[k].timestamp <= config.ttlMs
    /\ c.entries[k].version = c.globalVersion

TimerPending(c) ==
    \/ c.timeoutDue # -1 /\ c.timeoutDue > now
    \/ c.sleepDue # -1 /\ c.sleepDue > now

\* C29: when makeApiRequest has returned, whatever the result, none of the
\* timers it created (per-attempt timeout, backoff sleep) is still pending.
C29_NoTimerPendingAtReturn ==
    \A i \in Calls : call[i].pc = "done" => ~TimerPending(call[i])

\* requestUrl calls of the invocation the transport has not settled: the one
\* the race is waiting for, and those whose attempt the timeout ended.
Outstanding(c) == c.abandoned + (IF c.pc = "inflight" THEN 1 ELSE 0)

\* C30: at no instant has one invocation more than one transport request
\* outstanding, also after an attempt was ended by its timeout.
C30_OneRequestOutstanding ==
    \A i \in Calls : Outstanding(call[i]) <= 1


\* The tokens createCancellationToken has handed out so far.
HandedOut == 1 .. tokensCreated

\* C23: every token handed out before the most recent one is cancelled, so at
\* most one handed-out token is not cancelled, and it is the active one; a
\* token that is live when the next operation starts is cancelled by that
\* start, with reason "New operation started".
C23_LastOperationWins ==
    [][/\ \A t \in 1 .. tokensCreated' :
             t # tokensCreated' => isCancelled'[t]
       /\ Cardinality({t \in 1 .. tokensCreated' : ~isCancelled'[t]}) <= 1
       /\ tokensCreated' > 0 => activeCancellationToken' = tokensCreated'
       /\ \A t \in HandedOut :
             (~isCancelled[t] /\ tokensCreated' > tokensCreated)
             => isCancelled'[t] /\ reason'[t] = "New operation started"]_vars

\* C23 witness: three operations were started; the first two tokens were
\* cancelled by the start that followed, the third is live.
C23_Witness ==
    /\ tokensCreated = 3
    /\ isCancelled[1] /\ reason[1] = "New operation started"
    /\ isCancelled[2] /\ reason[2] = "New operation started"
    /\ ~isCancelled[3]
    /\ activeCancellationToken = 3

\* C24: a processQuickTask or breakdownEpic that was superseded while its
\* callGptApi was pending ends with the neutral cancellation notice only: it
\* shows no error notice and does not open its review modal.
C24_SupersededEndsWithNeutralNotice ==
    (operation.superseded /\ operation.pc = "ended")
    => operation.shown = {"progress", "cancelled"}


\* The transcription call is waiting for the transport.
WhisperInFlight(w) == w.pc \in {"fetching", "reading"}

\* C25: callWhisperApi is refused with 429, sending nothing, when the shared
\* window is full; when admitted it records its admission in the shared
\* window; and a call that ended on a retryable failure (429 or 5xx from the
\* server) has used its whole retry budget, so has sent more than one request.
C25_WhisperGoesThroughEngine ==
    [][/\ (/\ whisper.pc = "idle" /\ whisper'.pc # "idle"
           /\ (whisper'.token = NoToken \/ ~isCancelled[whisper'.token])
           /\ Cardinality(InWindow) >= maxRequests)
          => /\ whisper'.pc = "done"
             /\ whisper'.result.statusCode = RateLimitedStatus
             /\ whisper'.sent = 0
       /\ whisper'.sent > whisper.sent
          => requests' = Append(SelectSeq(requests, LAMBDA ts : ts > now - windowMs), now)
       /\ (/\ WhisperInFlight(whisper) /\ whisper'.pc = "done"
           /\ whisper'.result.statusCode \in {429} \cup (500 .. 599))
          => whisper'.sent > 1]_vars

\* C26: a callWhisperApi whose token is already cancelled returns cancelled
\* without sending a request; one whose token is cancelled while the upload
\* is in flight has its transport request aborted and returns cancelled, not
\* successful.
C26_WhisperCancellation ==
    [][/\ (/\ whisper.pc = "idle" /\ whisper'.pc # "idle"
           /\ whisper'.token # NoToken /\ isCancelled[whisper'.token])
          => /\ whisper'.pc = "done"
             /\ whisper'.sent = 0
             /\ whisper'.result.cancelled /\ ~whisper'.result.success
       /\ (/\ WhisperInFlight(whisper)
           /\ whisper.token # NoToken /\ isCancelled[whisper.token])
          => /\ Aborted(whisper)
             /\ whisper'.pc # whisper.pc
                => /\ whisper'.pc = "done"
                   /\ whisper'.sent = whisper.sent
                   /\ whisper'.result.cancelled /\ ~whisper'.result.success]_vars

\* C26 witness: the token was cancelled after the upload was sent, and the
\* call returned cancelled with the message of an aborted request.
C26_Witness ==
    /\ whisper.pc = "done"
    /\ whisper.sent = 1
    /\ whisper.result.cancelled
    /\ whisper.result.error.msg = "Request cancelled"
    /\ whisper.token # NoToken /\ isCancelled[whisper.token]


\* C27: every backoff delay is at most 30000 ms, whatever the attempt index
\* and the base delay; with the default base delay of 1000 ms the delays of
\* successive retries never decrease, whatever the jitter of each.
C27_BackoffCappedAndMonotone ==
    /\ \A k \in DOMAIN backoff.delays : backoff.delays[k] <= 30000
    /\ backoff.baseDelayMs = 1000
       => \A k \in DOMAIN backoff.delays :
             k > 1 => backoff.delays[k - 1] <= backoff.delays[k]

\* C27 witness: with base delay 1000 the largest jitter was followed by the
\* smallest (1999 then 2000) and the sixth delay was cut down to the cap.
C27_Witness ==
    /\ backoff.baseDelayMs = 1000
    /\ Len(backoff.delays) = 6
    /\ backoff.delays[1] = 1999
    /\ backoff.delays[2] = 2000
    /\ backoff.delays[5] = 16999
    /\ backoff.delays[6] = 30000


\* C28: an invocation that is waiting (for the transport, in a polling
\* slice or in a backoff sleep) eventually returns, also when the transport
\* never answers and whenever the token is cancelled.
C28_EveryInvocationReturns ==
    \A i \in Calls :
        (call[i].pc \in {"inflight", "poll", "sleep"}) ~> (call[i].pc = "done")

\* C28 witness: the transport answered none of the three attempts and the
\* invocation has returned its failure.
C28_Witness ==
    \E i \in Calls :
        /\ call[i].pc = "done"
        /\ call[i].maxRetries = 2
        /\ Len(call[i].outcomes) = 3
        /\ \A k \in DOMAIN call[i].outcomes : call[i].outcomes[k].kind = "timeout"
        /\ call[i].abandoned = 3
        /\ ~call[i].result.success /\ ~call[i].result.cancelled


\* The outcome the step has added to the invocation's record, if any.
NewOutcome(c, c1) ==
    IF Len(c1.outcomes) = Len(c.outcomes) + 1
    THEN c1.outcomes[Len(c1.outcomes)]
    ELSE [kind |-> "none", status |-> 0]

\* C31: an attempt ended by its timeout while budget remains is retried (the
\* backoff sleep, then a new attempt with a timeout of its own, counted as a
\* retry); an attempt ended by any other exception is the last one: the call
\* returns at once, failed and not cancelled, its error the exception's
\* message.
C31_ThrownAttemptClassification ==
    [][\A i \in Calls :
          LET c == call[i]
              c1 == call'[i]
          IN  /\ (/\ c.pc = "inflight"
                  /\ NewOutcome(c, c1).kind = "timeout"
                  /\ c.retryCount < c.maxRetries)
                 => c1.pc = "sleep"
              /\ (c.pc = "sleep" /\ c1.pc # "sleep" /\ ~TokenCancelled(c))
                 => /\ c1.pc = "inflight"
                    /\ c1.retryCount = c.retryCount + 1
                    /\ c1.timeoutDue = now + c.timeout
              /\ (c.pc = "inflight" /\ NewOutcome(c, c1).kind = "exception")
                 => /\ c1.pc = "done"
                    /\ ~c1.result.success
                    /\ ~c1.result.cancelled
                    /\ c1.result.retryCount = c.retryCount
                    /\ c1.result.error = c1.lastError]_vars


\* C32 as stated: canMakeRequest() returns true exactly when fewer than
\* maxRequests recorded timestamps lie in the closed interval
\* [now - windowMs, now], a timestamp exactly windowMs old counting.
C32_ClosedWindowCount ==
    canMakeRequest(requests, now, maxRequests, windowMs)
    <=> Cardinality({k \in DOMAIN requests :
                        now - windowMs <= requests[k] /\ requests[k] <= now})
        < maxRequests

\* C32 amended: canMakeRequest() returns true exactly when fewer than
\* maxRequests recorded timestamps lie in (now - windowMs, now]: a timestamp
\* exactly windowMs old no longer counts.
C32_HalfOpenWindowCount ==
    canMakeRequest(requests, now, maxRequests, windowMs)
    <=> Cardinality({k \in DOMAIN requests :
                        now - windowMs < requests[k] /\ requests[k] <= now})
        < maxRequests

\* C32 witness: the list is at capacity, its oldest timestamp is exactly
\* windowMs old, and canMakeRequest() answers true.
C32_Witness ==
    /\ Len(requests) = maxRequests
    /\ maxRequests >= 2
    /\ requests[1] = now - windowMs
    /\ \A k \in DOMAIN requests : k > 1 => requests[k] > now - windowMs
    /\ canMakeRequest(requests, now, maxRequests, windowMs)


\* The oldest admission timestamp still inside the trailing window.
OldestInWindow == requests[CHOOSE k \in InWindow : \A j \in InWindow : k <= j]

\* C33: with maxRequests >= 1, getWaitTime() is 0 exactly when
\* canMakeRequest() is true at the same instant; otherwise it is the oldest
\* timestamp + windowMs - now, which is > 0 and <= windowMs, and
\* canMakeRequest() is true once that much time has passed with nothing
\* recorded in between.
C33_WaitTimeAgreesWithAdmission ==
    maxRequests >= 1
    => LET waitTime == getWaitTime(requests, now, maxRequests, windowMs)
       IN  /\ waitTime = 0 <=> canMakeRequest(requests, now, maxRequests, windowMs)
           /\ ~canMakeRequest(requests, now, maxRequests, windowMs)
              => /\ waitTime = OldestInWindow + windowMs - now
                 /\ waitTime > 0
                 /\ waitTime <= windowMs
                 /\ canMakeRequest(requests, now + waitTime, maxRequests, windowMs)


\* C34: every set leaves at most maxEntries keys in the entry map, whatever
\* the capacity configured, 0 and 1 included.
C34_SetLeavesAtMostMaxEntries ==
    [][CacheOpStep("set")
       => Cardinality(DOMAIN CutAfter.entries) <= config.maxEntries]_vars


\* C35: a step that reconfigures the limiter keeps the recorded admission
\* timestamps, and those inside the new window count against the new
\* capacity in the next check.
C35_ReconfigureKeepsAdmissions ==
    [][(maxRequests' # maxRequests \/ windowMs' # windowMs)
       => /\ requests' = requests
          /\ canMakeRequest(requests', now', maxRequests', windowMs')
             <=> Cardinality({k \in DOMAIN requests : requests[k] > now - windowMs'})
                 < maxRequests']_vars


\* C36: makeApiRequest called with a token that is already cancelled returns
\* at once with cancelled = true and retryCount = 0, sends nothing and records
\* no admission, whether or not the limiter's window is full.
C36_CancelledTokenShortCircuits ==
    [][\A i \in Calls :
          (/\ call[i].pc = "idle"
           /\ call'[i].pc # "idle"
           /\ call'[i].token # NoToken
           /\ isCancelled[call'[i].token])
          => /\ call'[i].pc = "done"
             /\ call'[i].result.cancelled
             /\ ~call'[i].result.success
             /\ call'[i].result.retryCount = 0
             /\ call'[i].outcomes = <<>>
             /\ \A k \in DOMAIN requests' :
                   \E j \in DOMAIN requests : requests[j] = requests'[k]]_vars


\* The three shapes of a result.
SuccessShape(r) ==
    /\ r.success /\ ~r.cancelled
    /\ r.error = NullError
    /\ r.statusCode \in 200 .. 299
CancelledShape(r, tok) ==
    /\ r.cancelled /\ ~r.success
    /\ r.data = "null"
    /\ r.statusCode = 0
    /\ tok # NoToken
    /\ r.error = [kind |-> "reason", msg |-> reason[tok], num |-> 0]
FailedShape(r) ==
    /\ ~r.success /\ ~r.cancelled
    /\ r.data = "null"
    /\ r.error # NullError
    /\ r.error.kind # "reason"

\* C37: the result of a returned makeApiRequest has exactly one of the three
\* shapes (success, cancelled with the token's reason, failed with an error
\* string), and its retryCount is between 0 and maxRetries.
C37_ResultHasOneShape ==
    \A i \in Calls :
        call[i].pc = "done"
        => LET r == call[i].result
               shapes == <<SuccessShape(r), CancelledShape(r, call[i].token),
                           FailedShape(r)>>
           IN  /\ Cardinality({k \in 1 .. 3 : shapes[k]}) = 1
               /\ r.retryCount >= 0
               /\ r.retryCount <= call[i].maxRetries

\* C37 witness: a call returned cancelled from the backoff wait of its second
\* attempt, both attempts having been answered 500.
C37_Witness ==
    \E i \in Calls :
        /\ call[i].pc = "done"
        /\ call[i].result.cancelled
        /\ call[i].result.retryCount = 1
        /\ call[i].lastStatusCode = 500
        /\ Len(call[i].outcomes) = 2


\* C38: a failure result describes the invocation's last attempt: when that
\* attempt was answered with a status, statusCode is that status; when it
\* ended in a timeout or a transport exception, statusCode is 0 and the error
\* is the bare message, not wrapped for the status of an earlier attempt.
C38_FailureDescribesFinalAttempt ==
    \A i \in Calls :
        LET c == call[i]
            n == Len(c.outcomes)
        IN  (c.pc = "done" /\ ~c.result.success /\ ~c.result.cancelled /\ n >= 1)
            => IF IsStatus(c.outcomes[n])
               THEN c.result.statusCode = c.outcomes[n].status
               ELSE /\ c.result.statusCode = 0
                    /\ c.result.error.kind = "message"


\* C39: a set of a key the entry map already holds leaves the set of keys as
\* it was; the key then holds the value given, stamped with the current time
\* and globalVersion, and is the most recently used key.
C39_OverwriteEvictsNothing ==
    [][\A k \in Keys :
          (/\ CacheOpStep("set") /\ cacheRet'.key = k
           /\ k \in DOMAIN Cut.entries)
          => /\ DOMAIN CutAfter.entries = DOMAIN Cut.entries
             /\ CutAfter.entries[k] =
                   [data |-> stored'[CacheUnderTest][k].value, timestamp |-> now,
                    version |-> CutAfter.globalVersion]
             /\ CutAfter.globalVersion = Cut.globalVersion
             /\ CutAfter.accessOrder # <<>>
             /\ CutAfter.accessOrder[Len(CutAfter.accessOrder)] = k]_vars


\* C40: neither cancel nor onCancel raises to its caller when an observer
\* throws, and an observer that throws leaves the token's flag and reason as
\* the operation would have left them without it.
C40_ObserverExceptionNeverPropagates ==
    [][\A t \in Tokens :
          /\ (lastOp'.name = "cancel" /\ lastOp'.token = t)
             => /\ thrown' = NoException
                /\ isCancelled'[t]
                /\ reason'[t] = IF isCancelled[t] THEN reason[t] ELSE lastOp'.arg
          /\ (lastOp'.name = "onCancel" /\ lastOp'.token = t)
             => /\ thrown' = NoException
                /\ isCancelled'[t] = isCancelled[t]
                /\ reason'[t] = reason[t]]_vars

====
